---- MODULE Spec2Model ----
(***************************************************************************)
(* The dashboard analytics refresh engine of the two dashboard pages,      *)
(* webapp/src/dashboards/Overview.tsx and SoDashboardsPage.tsx.            *)
(*                                                                         *)
(* One page is mounted at a time (the router mounts one component).  A     *)
(* handler of the page is one action: the whole synchronous run of the     *)
(* handler, the effects it re-runs included.  Every backend request is a   *)
(* record in reqs; a response is an action of its own, so responses arrive *)
(* in any order.                                                           *)
(*                                                                         *)
(* Strings the code tokenizes are sequences of characters.  A character is *)
(* a one-element piece of text: the tokenizers tell apart only the double  *)
(* quote, the space and everything else, so a word without quote, space or *)
(* colon ("alert.signature", "ET") stands as one character.                *)
(***************************************************************************)
EXTENDS Integers, Sequences, FiniteSets, TLC

QUOTE == "\""
SPACE == " "
COLON == ":"

\* ---------------------------------------------------------------- bounds

\* User handlers run after the page is mounted (each may start several cycles).
MaxOps == 2
\* Batches one stream delivers before its done marker.
MaxBatches == 2
\* User handlers run where every response of the charts or streams is followed.
MaxChartOps == 1
\* Refresh cycles SoDashboardsPage starts (a settled cycle starts the next).
MaxCycles == 3
\* Requests that are rejected (a network error or a timeout).
MaxFailures == 1
\* The longest q of the URL a page is opened with, in characters, where the
\* tokenizer is checked over every text.
MaxText == 5

\* ------------------------------------------------------- string helpers

Max(a, b) == IF a >= b THEN a ELSE b

\* F of the value of e.  e is evaluated once, as the right-hand side of a const
\* declaration is; the handlers below are sequences of such declarations.
Then(e, F(_)) == CHOOSE t \in {F(x) : x \in {e}} : TRUE

\* Array.prototype.includes
Includes(seq, x) == \E i \in 1..Len(seq) : seq[i] = x

\* Array.prototype.filter with the test "token !== x"
RECURSIVE Without(_, _)
Without(seq, x) ==
  IF seq = <<>> THEN <<>>
  ELSE IF Head(seq) = x THEN Without(Tail(seq), x)
  ELSE <<Head(seq)>> \o Without(Tail(seq), x)

\* Array.prototype.join(" ")
RECURSIVE Join(_)
Join(tokens) ==
  IF tokens = <<>> THEN <<>>
  ELSE IF Len(tokens) = 1 THEN tokens[1]
  ELSE tokens[1] \o <<SPACE>> \o Join(Tail(tokens))

\* String.prototype.trim
RECURSIVE TrimLeft(_)
TrimLeft(q) ==
  IF q # <<>> /\ Head(q) = SPACE THEN TrimLeft(Tail(q)) ELSE q

RECURSIVE TrimRight(_)
TrimRight(q) ==
  IF q # <<>> /\ q[Len(q)] = SPACE THEN TrimRight(SubSeq(q, 1, Len(q) - 1)) ELSE q

Trim(q) == TrimRight(TrimLeft(q))

\* The index of the first double quote of q at or after i, 0 when there is none.
RECURSIVE NextQuote(_, _)
NextQuote(q, i) ==
  IF i > Len(q) THEN 0
  ELSE IF q[i] = QUOTE THEN i
  ELSE NextQuote(q, i + 1)

\* The last index of the run of non-space characters of q that starts at i (\S+).
RECURSIVE RunEnd(_, _)
RunEnd(q, i) ==
  IF i < Len(q) /\ q[i + 1] # SPACE THEN RunEnd(q, i + 1) ELSE i

\* Overview.splitQuery: the matches of /"([^"]*)"|(\S+)/g from left to right; a
\* match of the first alternative yields the text between the quotes, a match of
\* the second the run itself.
RECURSIVE SplitFrom(_, _)
SplitFrom(q, i) ==
  IF i > Len(q) THEN <<>>
  ELSE IF q[i] = QUOTE /\ NextQuote(q, i + 1) # 0
       THEN Then(NextQuote(q, i + 1), LAMBDA j :
              <<SubSeq(q, i + 1, j - 1)>> \o SplitFrom(q, j + 1))
  ELSE IF q[i] # SPACE
       THEN Then(RunEnd(q, i), LAMBDA j :
              <<SubSeq(q, i, j)>> \o SplitFrom(q, j + 1))
  ELSE SplitFrom(q, i + 1)

splitQuery(q) == SplitFrom(q, 1)

\* SoDashboardsPage.addFilter's tokenizer:
\* q.split(" ").filter((t) => t.trim().length > 0)
RECURSIVE SoSplitFrom(_, _)
SoSplitFrom(q, i) ==
  IF i > Len(q) THEN <<>>
  ELSE IF q[i] # SPACE
       THEN Then(RunEnd(q, i), LAMBDA j :
              <<SubSeq(q, i, j)>> \o SoSplitFrom(q, j + 1))
  ELSE SoSplitFrom(q, i + 1)

soSplit(q) == SoSplitFrom(q, 1)

\* The template `${field}:${value}`
Fragment(field, value) == <<field, COLON>> \o value

\* The template `"${value}"`
Quoted(value) == <<QUOTE>> \o value \o <<QUOTE>>

\* A number in a template literal: its decimal digits.
RECURSIVE Decimal(_)
Decimal(n) ==
  IF n < 10 THEN << <<"0", "1", "2", "3", "4", "5", "6", "7", "8", "9">>[n + 1] >>
  ELSE Decimal(n \div 10) \o Decimal(n % 10)

\* The elements argument of a chart's onClick: empty when the click hits nothing,
\* else the element hit first, of a chart of points data points and sets datasets.
Elements(points, sets) ==
  {<<>>} \cup {<< [index |-> i, datasetIndex |-> d] >> : i \in 0..(points - 1), d \in 0..(sets - 1)}

\* Overview.handleTableRowClick's fragment: the value is quoted when it holds a space.
TableRowFragment(field, value) ==
  Fragment(field, IF Includes(value, SPACE) THEN Quoted(value) ELSE value)

\* The fragment of the onClick of the Top Signatures chart (both pages):
\* `alert.signature:"${value}"`
SignatureFragment(value) == Fragment("alert.signature", Quoted(value))

\* ------------------------------------------------------------ the pages

\* The streamed top-N tables of Overview.refresh (aggRequests): the loop runs one
\* body for every table; one of the eight tables stands for all of them.
Tables == {"topAlerts"}

\* The search field of a table (CountValueDataTable searchField).
TableField(t) == "alert.signature"

\* The key of SoDashboardsPage.loadTopTalkers("src_ip", "topTalkersSrc"); the other
\* keys of the page's charts are keys of Overview too.
SoChartKeys == {"topTalkersSrc"}

\* The keys of Overview.chartRegistry (the first argument of upsertChart).
ChartKeys ==
  {"eventsPerMinute", "severityStack", "topTalkerSrc", "topTalkerDst", "topSignatures"}
    \cup SoChartKeys

\* Values a backend aggregation returns, with their characters.
Signatures == {"ET SCAN", "SURICATA"}
Addresses == {"10.0.0.1"}
Chars(v) == IF v = "ET SCAN" THEN <<"ET", SPACE, "SCAN">> ELSE <<v>>

Row(v, n) == [key |-> v, count |-> n]

\* response.rows of the top-signature aggregation.
SignatureResults == {<<>>, <<Row("ET SCAN", 42)>>, <<Row("SURICATA", 7)>>}
\* response.rows of a top-talker aggregation.
TalkerResults == {<<Row("10.0.0.1", 5), Row("10.0.0.2", 3)>>}
\* data.rows of one batch of a streamed aggregation.
BatchResults(t) ==
  IF t = "topAlerts" THEN {<<>>, <<Row("ET SCAN", 42)>>}
  ELSE {<<>>, <<Row("tcp", 10)>>, <<Row("tcp", 10), Row("udp", 3)>>}

\* The event types API.getEventTypes returns.
EventTypes == <<"alert", "flow">>
\* response.data.length of one histogramTime response.
BucketCounts == {0, 2}

\* Every key a chart instance is created for: the registry keys, one sparkline
\* per signature, the events-by-type histogram and the protocol pie.
InstanceKeys == ChartKeys \cup Signatures \cup {"histogram", "protocolsPie"}

Keys(rows) == {rows[i].key : i \in 1..Len(rows)}

VARIABLES
  page,                  \* the mounted component
  phase,                 \* "new" | "mounted" | "unmounted"
  ops,                   \* user handlers run so far
  version,               \* Overview: createSignal(0), the generation of refresh
  rid,                   \* Overview: let rid = 0, the generation of refreshAnalytics
  cycle,                 \* calls of refresh so far (history)
  TIME_RANGE,            \* Top.TIME_RANGE
  searchParams,          \* useSearchParams: [sensor, q]
  filters,               \* createStore: [query]
  analyticsLoading,
  eventsOverTimeLoading,
  tables,                \* the AggResults stores of the tables
  protocols,             \* the protocols store and the pie the panel shows
  histogram,             \* let histogram: Chart | undefined
  labels,                \* the labels array of each fetchEventsHistogram call
  chartRegistry,
  signatureSparklines,
  sparklineRefs,
  topSignaturesRows,
  instances,             \* per key, destroy() calls of every Chart created for it
  peak,                  \* per key, the most instances ever live at once (history)
  reqs,                  \* requests in flight
  calls,                 \* the Promise.all of each refreshAnalytics call
  runs,                  \* runs of the sparkline effect so far (history)
  shown,                 \* per registry key, what the chart on its canvas draws
  failures,              \* requests that were rejected so far (history)
  followed,              \* SoDashboardsPage: the loaders of refreshAllCharts whose
                         \* requests are followed
  console,               \* the event types console.error of line 253 was called
                         \* for, each with the fetchEventsHistogram call
  sseCalls,              \* the calls of the streaming API the latest refresh made,
                         \* in their order (history)
  log                    \* the last user handler (history)

vars ==
  <<page, phase, ops, version, rid, cycle, TIME_RANGE, searchParams, filters,
    analyticsLoading, eventsOverTimeLoading, tables, protocols, histogram, labels,
    chartRegistry, signatureSparklines, sparklineRefs, topSignaturesRows,
    instances, peak, reqs, calls, runs, shown, failures, followed, console, sseCalls, log>>

\* The state as one record, so that a handler is a function from state to state.
State ==
  [page |-> page, phase |-> phase, ops |-> ops, version |-> version, rid |-> rid,
   cycle |-> cycle, TIME_RANGE |-> TIME_RANGE, searchParams |-> searchParams,
   filters |-> filters, analyticsLoading |-> analyticsLoading,
   eventsOverTimeLoading |-> eventsOverTimeLoading, tables |-> tables,
   protocols |-> protocols, histogram |-> histogram, labels |-> labels,
   chartRegistry |-> chartRegistry, signatureSparklines |-> signatureSparklines,
   sparklineRefs |-> sparklineRefs, topSignaturesRows |-> topSignaturesRows,
   instances |-> instances, peak |-> peak, reqs |-> reqs, calls |-> calls,
   runs |-> runs, shown |-> shown, failures |-> failures,
   followed |-> followed, console |-> console, sseCalls |-> sseCalls, log |-> log]

Commit(t) ==
  /\ page' = t.page
  /\ phase' = t.phase
  /\ ops' = t.ops
  /\ version' = t.version
  /\ rid' = t.rid
  /\ cycle' = t.cycle
  /\ TIME_RANGE' = t.TIME_RANGE
  /\ searchParams' = t.searchParams
  /\ filters' = t.filters
  /\ analyticsLoading' = t.analyticsLoading
  /\ eventsOverTimeLoading' = t.eventsOverTimeLoading
  /\ tables' = t.tables
  /\ protocols' = t.protocols
  /\ histogram' = t.histogram
  /\ labels' = t.labels
  /\ chartRegistry' = t.chartRegistry
  /\ signatureSparklines' = t.signatureSparklines
  /\ sparklineRefs' = t.sparklineRefs
  /\ topSignaturesRows' = t.topSignaturesRows
  /\ instances' = t.instances
  /\ peak' = t.peak
  /\ reqs' = t.reqs
  /\ calls' = t.calls
  /\ runs' = t.runs
  /\ shown' = t.shown
  /\ failures' = t.failures
  /\ sseCalls' = t.sseCalls
  /\ console' = t.console
  /\ followed' = t.followed
  /\ log' = t.log

\* A request in flight. id is the cycle that issued it (refresh: the call's
\* number; refreshAnalytics: my; a sparkline: the run of the effect), ver the value
\* of version() when it was issued, q the query string it asks for, n the batches
\* a stream has delivered, dropped those of them that were not handed to the
\* callback, last the rows of the latest batch that was handed to it (history).
Req(kind, target, id, ver, q) ==
  [kind |-> kind, target |-> target, id |-> id, ver |-> ver, q |-> q,
   n |-> 0, dropped |-> 0, last |-> <<>>]

\* ------------------------------------------------------ chart instances

\* What the config handed to new Chart draws: a chart of points or rows
\* ("chart"), a chart built from an empty response, which has axes and no data
\* ("emptyChart"), the text of emptyChartConfig for an empty response ("noData")
\* or for a rejected request ("failed"); "none" before the first chart.
Views == {"none", "chart", "emptyChart", "noData", "failed"}

\* The canvas of key draws view.
Draw(s, key, view) == [s EXCEPT !.shown[key] = view]

\* The config the loaders of Overview build from n points or rows.
ChartOf(n) == IF n = 0 THEN "emptyChart" ELSE "chart"

\* The config loadEventsPerMinute of SoDashboardsPage builds from n points.
SoChartOf(n) == IF n = 0 THEN "noData" ELSE "chart"

Live(inst, key) == {i \in 1..Len(inst[key]) : inst[key][i] = 0}

\* One step of a handler on the instances of key; the peak is sampled after it.
Step(s, key, inst) ==
  [s EXCEPT !.instances = inst,
            !.peak[key] = Max(@, Cardinality(Live(inst, key)))]

\* chart.destroy() on instance i of key
Destroy(s, key, i) ==
  Step(s, key, [s.instances EXCEPT ![key][i] = @ + 1])

\* new Chart(canvas, config) for key; the new instance is the last of the key.
Create(s, key) ==
  Step(s, key, [s.instances EXCEPT ![key] = Append(@, 0)])

\* ------------------------------------------------- Overview: the refresh

NoGen == [id |-> 0, n |-> 0]
NoPie == [idx |-> 0, rows |-> <<>>, gen |-> NoGen]

\* Array.prototype.filter(Boolean).join(" ") of two strings
JoinNonEmpty(a, b) ==
  IF a = <<>> THEN b ELSE IF b = <<>> THEN a ELSE a \o <<SPACE>> \o b

\* Overview.buildQueryString
buildQueryString(s) ==
  LET host == IF s.searchParams.sensor # <<>>
              THEN << <<"host", COLON>> \o s.searchParams.sensor >> ELSE <<>>
      text == IF Len(Trim(s.filters.query)) > 0
              THEN << Trim(s.filters.query) >> ELSE <<>>
  IN  Trim(Join(host \o text))

\* The q of an entry of aggRequests.
AggQuery(t) ==
  IF t = "topAlerts" THEN <<"event_type", COLON, "alert">>
  ELSE <<"event_type", COLON, "flow">>

\* The onCleanup of PieChart
pieCleanup(s) ==
  [Destroy(s, "protocolsPie", s.protocols.pie.idx) EXCEPT !.protocols.pie = NoPie]

\* <Show when={protocols.data.length > 0}><PieChart data={protocols.data}/></Show>
\* under setProtocols("data", rows): the PieChart is unmounted (its onCleanup
\* destroys the chart) when the data becomes empty, mounted (its effect creates
\* the chart) when it becomes non-empty, and its effect destroys and recreates the
\* chart when the data changes.  A disposed page renders nothing.
setProtocolsData(s, rows, gen) ==
  Then([s EXCEPT !.protocols.data = rows, !.protocols.gen = gen], LAMBDA s1 :
    IF s.phase # "mounted" \/ rows = s.protocols.data THEN s1
    ELSE Then(IF s.protocols.pie.idx # 0 THEN pieCleanup(s1) ELSE s1, LAMBDA gone :
      IF rows = <<>> THEN gone
      ELSE Then(Create(gone, "protocolsPie"), LAMBDA c :
        [c EXCEPT !.protocols.pie =
           [idx |-> Len(c.instances["protocolsPie"]), rows |-> rows, gen |-> gen]])))

\* Overview.initChart with buildChart
initChart(s) ==
  Then(IF s.histogram.idx # 0 THEN Destroy(s, "histogram", s.histogram.idx) ELSE s,
       LAMBDA a :
  Then(Create(a, "histogram"), LAMBDA b :
    [b EXCEPT !.histogram =
       [idx |-> Len(b.instances["histogram"]), labelsOf |-> 0, datasets |-> <<>>]]))

\* Overview.fetchEventsHistogram up to its first await
fetchEventsHistogram(s, q) ==
  Then(initChart(s), LAMBDA a :
    [a EXCEPT !.labels = Append(@, 0),
              !.reqs = @ \cup {Req("getEventTypes", "histogram", a.cycle, a.version, q)}])

\* A refresh that leaves version as it is.
SameVersion(v) == v

\* setVersion((version) => version + 1)
NextVersion(v) == v + 1

\* A refresh that cancels no stream.
noCancel(s) == s

\* API.cancelAllSse?.() of line 164
cancelAllSse(s) == [s EXCEPT !.sseCalls = Append(@, "cancelAllSse")]

\* Overview.refresh: the whole call (it awaits nothing itself)
refresh(s) ==
  Then(cancelAllSse([s EXCEPT !.sseCalls = <<>>]), LAMBDA s0 :
  Then(NextVersion(s0.version), LAMBDA v :
  Then([s0 EXCEPT !.version = v, !.cycle = @ + 1, !.protocols.loading = TRUE],
       LAMBDA s1 :
  Then(buildQueryString(s1), LAMBDA q :
  Then(setProtocolsData(s1, <<>>, NoGen), LAMBDA s2 :
  Then([s2 EXCEPT
          !.tables = [t \in Tables |-> [@[t] EXCEPT !.loading = TRUE]],
          !.sseCalls = @ \o [i \in 1..Cardinality(Tables \cup {"protocols"}) |-> "getSseAgg"],
          !.reqs = @ \cup {Req("getSseAgg", t, s1.cycle, v, JoinNonEmpty(q, AggQuery(t)))
                             : t \in Tables \cup {"protocols"}}],
       LAMBDA s3 :
    fetchEventsHistogram(s3, q)))))))

\* ---------------------------------------- Overview: the analytics charts

Loaders ==
  {"loadEventsPerMinute", "loadSeverityStack", "loadTopTalkers", "loadTopSignatures"}

Unsettled == [state |-> "pending", rows |-> <<>>]

AlertsOnly(q) == JoinNonEmpty(q, <<"event_type", COLON, "alert">>)

\* A refreshAnalytics that reuses the request id.
SameRid(r) == r

\* const my = ++rid
NextRid(r) == r + 1

\* Overview.refreshAnalytics up to its await: the four loaders run to their first
\* await, five requests are in flight.
refreshAnalytics(s) ==
  Then(NextRid(s.rid), LAMBDA my :
  Then(buildQueryString(s), LAMBDA queryString :
  Then(Len(s.calls) + 1, LAMBDA id :
    [s EXCEPT
       !.rid = my,
       !.analyticsLoading = TRUE,
       !.calls = Append(@, [left |-> Loaders, settled |-> FALSE,
                            src |-> Unsettled, dst |-> Unsettled]),
       !.reqs = @ \cup
         { Req("loadEventsPerMinute", "eventsPerMinute", id, my, queryString),
           Req("loadSeverityStack", "severityStack", id, my, queryString),
           Req("loadTopTalkers", "topTalkerSrc", id, my, AlertsOnly(queryString)),
           Req("loadTopTalkers", "topTalkerDst", id, my, AlertsOnly(queryString)),
           Req("loadTopSignatures", "topSignatures", id, my, AlertsOnly(queryString)) }])))

\* An upsert that creates the new chart before it destroys the old one.
CreateThenDestroy(s, key, id, rows) ==
  Then(Create(s, key), LAMBDA a :
  Then(IF s.chartRegistry[key].idx # 0 THEN Destroy(a, key, s.chartRegistry[key].idx)
       ELSE a, LAMBDA b :
    [b EXCEPT !.chartRegistry[key] =
       [idx |-> Len(b.instances[key]), id |-> id, rows |-> rows]]))

\* Overview.upsertChart; every canvas ref of the page is set when it renders.
upsertChart(s, key, id, rows) ==
  Then(IF s.chartRegistry[key].idx # 0 THEN Destroy(s, key, s.chartRegistry[key].idx)
       ELSE s, LAMBDA a :
  Then(Create(a, key), LAMBDA b :
    [b EXCEPT !.chartRegistry[key] =
       [idx |-> Len(b.instances[key]), id |-> id, rows |-> rows]]))

\* The pruning loop of the sparkline effect: destroy and delete every sparkline
\* whose key is in ks.
RECURSIVE PruneSparklines(_, _)
PruneSparklines(s, ks) ==
  IF ks = {} THEN s
  ELSE Then(CHOOSE x \in ks : TRUE, LAMBDA k :
       Then([Destroy(s, k, s.signatureSparklines[k].idx)
               EXCEPT !.signatureSparklines[k] = [idx |-> 0, id |-> 0]], LAMBDA a :
         PruneSparklines(a, ks \ {k})))

\* The effect of lines 641-653: prune the sparklines of the signatures that left
\* the rows, then call loadSignatureTrend for every row (to its await).
SparklineEffect(s) ==
  Then(Keys(s.topSignaturesRows), LAMBDA keys :
  Then(buildQueryString(s), LAMBDA queryString :
  Then({k \in Signatures : s.signatureSparklines[k].idx # 0 /\ k \notin keys},
       LAMBDA stale :
  Then(PruneSparklines(s, stale), LAMBDA a :
    [a EXCEPT
       !.runs = @ + 1,
       !.reqs = @ \cup
         { Req("loadSignatureTrend", k, a.runs + 1, 0,
               JoinNonEmpty(queryString, SignatureFragment(Chars(k)))) : k \in keys }]))))

\* setTopSignaturesRows(rows): the list of rows is rendered again, every row's
\* canvas ref callback stores its canvas in sparklineRefs, and the sparkline
\* effect, which reads topSignaturesRows, runs again.  A disposed page renders
\* nothing and runs no effect.
setTopSignaturesRows(s, rows) ==
  IF s.phase # "mounted" THEN [s EXCEPT !.topSignaturesRows = rows]
  ELSE Then([s EXCEPT !.topSignaturesRows = rows, !.sparklineRefs = @ \cup Keys(rows)],
            LAMBDA a : SparklineEffect(a))

\* ------------------------------------------ Overview: effects and setters
\*
\* An effect runs again, synchronously, when a signal or store field it read in
\* its last run is written with a different value.  Effects run in the order of
\* their creation; an effect made stale by a write of an effect of the same flush
\* runs after the flush.

\* The effect of lines 103-107.  It reads TIME_RANGE, and, in buildQueryString,
\* searchParams.sensor and filters.query.
RefreshEffect(s) == Then(refresh(s), LAMBDA a : refreshAnalytics(a))

\* The effects that follow a write of searchParams or of filters.query:
\* the effect of lines 103-107 when one of its values changed, then the effect of
\* lines 109-113 (it copies a non-empty searchParams.q into filters.query), then
\* the sparkline effect, then the first effect again when the copy changed the
\* query.
Flush(s, changed, qRead) ==
  Then(IF changed THEN RefreshEffect(s) ELSE s, LAMBDA a :
  Then(qRead /\ a.searchParams.q # <<>> /\ a.searchParams.q # a.filters.query,
       LAMBDA copy :
  Then(IF copy THEN [a EXCEPT !.filters.query = a.searchParams.q] ELSE a, LAMBDA b :
  Then(IF changed \/ copy THEN SparklineEffect(b) ELSE b, LAMBDA c :
    IF copy THEN RefreshEffect(c) ELSE c))))

\* setFilters("query", v)
setFiltersQuery(s, v) ==
  IF v = s.filters.query THEN s
  ELSE Then([s EXCEPT !.filters.query = v], LAMBDA a :
         Flush(a, TRUE, s.searchParams.q # <<>>))

\* setSearchParams({ sensor, q }); an absent parameter is the empty string.
setSearchParams(s, sensor, q) ==
  IF sensor = s.searchParams.sensor /\ q = s.searchParams.q THEN s
  ELSE Then([s EXCEPT !.searchParams = [sensor |-> sensor, q |-> q]], LAMBDA a :
         Flush(a, sensor # s.searchParams.sensor, q # s.searchParams.q))

\* SET_TIME_RANGE(range): the first effect reads TIME_RANGE, the sparkline effect
\* reads it in loadSignatureTrend when there is a row.
setTimeRange(s, range) ==
  IF range = s.TIME_RANGE THEN s
  ELSE Then([s EXCEPT !.TIME_RANGE = range], LAMBDA a :
       Then(RefreshEffect(a), LAMBDA b :
         IF b.topSignaturesRows # <<>> THEN SparklineEffect(b) ELSE b))

\* ------------------------------------------------ Overview: the handlers

\* The tail of addFilter and removeFilter (lines 375-377 and 383-385)
storeQuery(s, next) ==
  Then(setFiltersQuery(s, next), LAMBDA a :
  Then(setSearchParams(a, a.searchParams.sensor, next), LAMBDA b :
    refreshAnalytics(b)))

\* Overview.addFilter
addFilter(s, fragment) ==
  Then(splitQuery(IF s.searchParams.q # <<>> THEN s.searchParams.q
                  ELSE s.filters.query), LAMBDA tokens :
  Then(IF Includes(tokens, fragment) THEN tokens ELSE Append(tokens, fragment),
       LAMBDA pushed :
  Then(Join(pushed), LAMBDA next : storeQuery(s, next))))

\* A severity chart whose datasets are taken for Low, Medium, High.
LowFirst(i) == <<3, 2, 1>>[i + 1]

\* [1, 2, 3][i] of line 502
SeverityOf(i) == <<1, 2, 3>>[i + 1]

\* The onClick of Overview's severity chart (lines 499-503)
severityClick(s, elements) ==
  IF elements = <<>> THEN s
  ELSE Then(elements[1].datasetIndex, LAMBDA i :
         addFilter(s, Fragment("alert.severity", Decimal(SeverityOf(i)))))

\* The onClick of a chart of Overview's renderBar (lines 543-549)
talkerClick(s, field, data, elements) ==
  IF elements = <<>> THEN s
  ELSE Then(data[elements[1].index + 1].key, LAMBDA value :
         addFilter(s, Fragment(field, Chars(value))))

\* Overview.removeFilter
removeFilter(s, fragment) ==
  Then(splitQuery(s.filters.query), LAMBDA tokens :
  Then(Without(tokens, fragment), LAMBDA kept :
  Then(Join(kept), LAMBDA next : storeQuery(s, next))))

\* Overview.handleTableRowClick
handleTableRowClick(s, field, value) ==
  Then(TableRowFragment(field, value), LAMBDA fragment : addFilter(s, fragment))

\* The refresh prop of RefreshButton
refreshClick(s) == Then(refresh(s), LAMBDA a : refreshAnalytics(a))

\* The onchange of SensorSelect
sensorChange(s, sensor) ==
  Then(setSearchParams(s, sensor, s.filters.query), LAMBDA a : refreshClick(a))

\* The onClick of the apply button
applyClick(s) ==
  Then(setSearchParams(s, s.searchParams.sensor, s.filters.query), LAMBDA a :
    refreshClick(a))

\* The onClick of the reset button
resetClick(s) ==
  Then(setFiltersQuery(s, <<>>), LAMBDA a :
  Then(setSearchParams(a, a.searchParams.sensor, <<>>), LAMBDA b :
    refreshClick(b)))

\* ----------------------------------------------- Overview: the responses

\* A request is rejected and nothing awaits it any more.
Fail(s, r) == [s EXCEPT !.reqs = @ \ {r}, !.failures = @ + 1]

Drop(s, r) == [s EXCEPT !.reqs = @ \ {r}]

\* API.getSseAgg(request, version, cb) hands a batch or the done marker to cb
\* only while version() is the value it had when the stream was opened.
SseDelivers(s, r) == r.ver = s.version

\* A callback of a table's stream that keeps the rows of the first batch.
firstBatchWins(s, t, rows, gen) ==
  IF s.tables[t].gen.id = gen.id THEN s
  ELSE [s EXCEPT !.tables[t].rows = rows, !.tables[t].gen = gen]

\* The callback of a table's stream (lines 216-222) with a batch.
tableBatch(s, t, rows, gen) ==
  [s EXCEPT !.tables[t].rows = rows, !.tables[t].gen = gen]

\* A callback of the protocols stream that hands every batch to the store, so
\* that the PieChart destroys its chart and creates another.
protocolsRecreate(s, rows, gen) == setProtocolsData(s, rows, gen)

\* The callback of the protocols stream (lines 192-212) with a batch: the first
\* non-empty batch goes to the store, a later one patches the pie in place when
\* Chart.getChart finds it.
protocolsBatch(s, rows, gen) ==
  IF s.protocols.data = <<>> THEN setProtocolsData(s, rows, gen)
  ELSE IF s.protocols.pie.idx # 0
       THEN [s EXCEPT !.protocols.pie.rows = rows, !.protocols.pie.gen = gen]
  ELSE s

\* One batch of a stream arrives.
sseBatch(s, r, rows) ==
  IF ~SseDelivers(s, r)
  THEN [s EXCEPT !.reqs = (@ \ {r}) \cup {[r EXCEPT !.n = @ + 1, !.dropped = @ + 1]}]
  ELSE Then([s EXCEPT !.reqs = (@ \ {r}) \cup {[r EXCEPT !.n = @ + 1, !.last = rows]}],
            LAMBDA a :
       Then([id |-> r.id, n |-> r.n + 1], LAMBDA gen :
         IF r.target = "protocols" THEN protocolsBatch(a, rows, gen)
         ELSE tableBatch(a, r.target, rows, gen)))

\* The done marker of a stream arrives and its promise resolves: cb(null), then
\* the finally of the request.
sseDone(s, r) ==
  IF r.target = "protocols"
  THEN [s EXCEPT !.reqs = @ \ {r}, !.protocols.loading = FALSE]
  ELSE [s EXCEPT !.reqs = @ \ {r}, !.tables[r.target].loading = FALSE]

\* A finally that clears the loading flag of every streamed visual.
sseFailAll(s, r) ==
  [Fail(s, r) EXCEPT !.protocols.loading = FALSE,
                     !.tables = [t \in Tables |-> [@[t] EXCEPT !.loading = FALSE]]]

\* The promise of a stream rejects: the finally of the request, no callback.
sseFail(s, r) ==
  IF r.target = "protocols"
  THEN [Fail(s, r) EXCEPT !.protocols.loading = FALSE]
  ELSE [Fail(s, r) EXCEPT !.tables[r.target].loading = FALSE]

\* A histogramTime request of fetchEventsHistogram rejects: the finally of line
\* 268.
histogramFail(s, r) == [Fail(s, r) EXCEPT !.eventsOverTimeLoading = @ - 1]

\* fetchEventsHistogram after API.getEventTypes: one histogramTime request per
\* event type.
eventTypesResponse(s, r) ==
  [s EXCEPT
     !.eventsOverTimeLoading = @ + Len(EventTypes),
     !.reqs = (@ \ {r}) \cup {Req("histogramTime", EventTypes[i], r.id, r.ver, r.q)
                                : i \in 1..Len(EventTypes)}]

\* A histogram that takes every response as a dataset.
AnyLength(count, labelsLength) == FALSE

\* response.data.length !== labels.length of line 252
Mismatch(count, labelsLength) == count # labelsLength

\* The body of lines 245-267 with a response of count buckets; labels is the
\* array of the fetchEventsHistogram call that issued the request.
histogramResponse(s, r, count) ==
  Then(s.labels[r.id] = 0, LAMBDA first :
  Then(IF first THEN count ELSE s.labels[r.id], LAMBDA mine :
  Then([s EXCEPT !.reqs = @ \ {r},
                 !.labels[r.id] = mine,
                 !.eventsOverTimeLoading = @ - 1,
                 !.histogram.labelsOf = IF first /\ s.histogram.idx # 0 THEN r.id ELSE @],
       LAMBDA a :
    IF Mismatch(count, mine)
      THEN [a EXCEPT !.console = @ \cup {[id |-> r.id, label |-> r.target]}]
    ELSE IF a.histogram.idx = 0 THEN a
    ELSE [a EXCEPT !.histogram.datasets =
            Append(@, [id |-> r.id, label |-> r.target, n |-> count])])))

\* A loader without the check of its requestId.
NeverSuperseded(s, r) == FALSE

\* if (requestId !== rid) return
Superseded(s, r) == r.ver # s.rid

\* A refreshAnalytics without the finally: the busy flag is never cleared.
NoFinally(s, r) == [s EXCEPT !.calls[r.id].settled = TRUE]

\* The finally of refreshAnalytics, once, when its Promise.all settles.
Finally(s, r) ==
  IF s.calls[r.id].settled THEN s
  ELSE [s EXCEPT !.calls[r.id].settled = TRUE,
                 !.analyticsLoading = IF r.ver = s.rid THEN FALSE ELSE @]

\* One loader of the Promise.all of refreshAnalytics resolves; the Promise.all
\* resolves with the last.
Settle(s, r) ==
  Then(s.calls[r.id].left \ {r.kind}, LAMBDA left :
  Then([s EXCEPT !.calls[r.id].left = left], LAMBDA a :
    IF left # {} THEN a ELSE Finally(a, r)))

\* One loader of the Promise.all of refreshAnalytics rejects: the Promise.all
\* rejects with the first rejection, whatever is still pending.
Reject(s, r) ==
  Then([s EXCEPT !.calls[r.id].left = @ \ {r.kind}], LAMBDA a : Finally(a, r))

\* loadEventsPerMinute and loadSeverityStack after their await, with a response
\* of points buckets
loadChart(s, r, points) ==
  Then(Drop(s, r), LAMBDA a :
  Then(IF Superseded(a, r) THEN a
       ELSE Draw(upsertChart(a, r.target, r.id, <<>>), r.target, ChartOf(points)),
       LAMBDA b :
    Settle(b, r)))

\* loadEventsPerMinute, loadSeverityStack or loadTopSignatures when its request
\* is rejected: no loader of Overview catches.
loaderRejects(s, r) == Then(Fail(s, r), LAMBDA a : Reject(a, r))

\* The two renderBar calls of loadTopTalkers
renderBars(s, r, src, dst) ==
  Then(Draw(upsertChart(s, "topTalkerSrc", r.id, src), "topTalkerSrc", ChartOf(Len(src))),
       LAMBDA a :
    Draw(upsertChart(a, "topTalkerDst", r.id, dst), "topTalkerDst", ChartOf(Len(dst))))

\* The field of a call that holds the outcome of a request of loadTopTalkers.
Side(r) == IF r.target = "topTalkerSrc" THEN "src" ELSE "dst"

\* loadTopTalkers after its await: the inner Promise.all resolves with the second
\* of the two responses.
loadTopTalkers(s, r, rows) ==
  Then([s EXCEPT !.reqs = @ \ {r},
                 !.calls[r.id][Side(r)] = [state |-> "ok", rows |-> rows]], LAMBDA a :
  Then(a.calls[r.id], LAMBDA c :
    IF ~(c.src.state = "ok" /\ c.dst.state = "ok") THEN a
    ELSE Then(IF Superseded(a, r) THEN a ELSE renderBars(a, r, c.src.rows, c.dst.rows),
              LAMBDA b : Settle(b, r))))

\* One of the two requests of loadTopTalkers is rejected: the inner Promise.all
\* and with it the loader reject with the first rejection.
talkersReject(s, r) ==
  Then(s.calls[r.id].src.state = "failed" \/ s.calls[r.id].dst.state = "failed",
       LAMBDA rejected :
  Then([Fail(s, r) EXCEPT !.calls[r.id][Side(r)] = [state |-> "failed", rows |-> <<>>]],
       LAMBDA a :
    IF rejected THEN a ELSE Reject(a, r)))

\* loadTopSignatures after its await
loadTopSignatures(s, r, rows) ==
  Then(Drop(s, r), LAMBDA a :
    IF Superseded(a, r) THEN Settle(a, r)
    ELSE Then(setTopSignaturesRows(a, rows), LAMBDA b :
         Then(Draw(upsertChart(b, "topSignatures", r.id, rows), "topSignatures",
                   ChartOf(Len(rows))), LAMBDA c :
           Settle(c, r))))

\* loadSignatureTrend after its await
loadSignatureTrend(s, r) ==
  Then(Drop(s, r), LAMBDA a :
    IF r.target \notin a.sparklineRefs THEN a
    ELSE Then(IF a.signatureSparklines[r.target].idx # 0
              THEN Destroy(a, r.target, a.signatureSparklines[r.target].idx) ELSE a,
              LAMBDA b :
         Then(Create(b, r.target), LAMBDA c :
           [c EXCEPT !.signatureSparklines[r.target] =
              [idx |-> Len(c.instances[r.target]), id |-> r.id]])))

\* A teardown loop that destroys nothing.
DestroyNone(s, ks, ref) == s

\* Object.values(ref).forEach((chart) => chart.destroy()), ks the keys of ref.
RECURSIVE DestroyEach(_, _, _)
DestroyEach(s, ks, ref) ==
  IF ks = {} THEN s
  ELSE Then(CHOOSE x \in ks : TRUE, LAMBDA k :
       Then(Destroy(s, k, ref[k].idx), LAMBDA a : DestroyEach(a, ks \ {k}, ref)))

\* The charts a registry holds.
Held(ref) == {k \in DOMAIN ref : ref[k].idx # 0}

\* The onCleanup of Overview (lines 145-150) and, the page's children being
\* disposed with it, the onCleanup of PieChart.
onCleanup(s) ==
  Then(DestroyEach(s, Held(s.chartRegistry), s.chartRegistry), LAMBDA a :
  Then(DestroyEach(a, Held(s.signatureSparklines), s.signatureSparklines), LAMBDA b :
  Then(IF s.histogram.idx # 0 THEN Destroy(b, "histogram", s.histogram.idx) ELSE b,
       LAMBDA c :
  Then(IF s.protocols.pie.idx # 0 THEN pieCleanup(c) ELSE c, LAMBDA d :
    [d EXCEPT !.phase = "unmounted"]))))

\* ------------------------------------------------------ SoDashboardsPage
\*
\* The page's signals share the variables of Overview: loading is
\* analyticsLoading, sparklineCharts is signatureSparklines, signatureRows is
\* topSignaturesRows.  filters has its six fields; the panel's inputs that are
\* typed into are sensor and signature (ip, proto and port are handled as sensor
\* is).  Two of the ten loaders stand for all:
\* loadEventsPerMinute, which draws one chart, and loadTopSignatures, which loads
\* the sparklines.

SoLoaders == {"loadEventsPerMinute", "loadTopSignatures"}

\* The filters store of SoDashboardsPage before anything is typed.
NoFilters ==
  [sensor |-> <<>>, severity |-> <<>>, ip |-> <<>>, signature |-> <<>>,
   proto |-> <<>>, port |-> <<>>]

\* filters.severity.join(" OR ")
RECURSIVE JoinOr(_)
JoinOr(levels) ==
  IF levels = <<>> THEN <<>>
  ELSE IF Len(levels) = 1 THEN levels[1]
  ELSE levels[1] \o <<SPACE, "OR", SPACE>> \o JoinOr(Tail(levels))

\* The tokens buildQueryString and applyFilters build from the filter panel.
FilterTokens(s) ==
  (IF s.filters.sensor # <<>> THEN << <<"host", COLON>> \o s.filters.sensor >> ELSE <<>>)
  \o (IF Len(s.filters.severity) # 0
      THEN << <<"alert.severity", COLON, "(">> \o JoinOr(s.filters.severity) \o <<")">> >>
      ELSE <<>>)
  \o (IF s.filters.ip # <<>> THEN << <<"ip", COLON>> \o s.filters.ip >> ELSE <<>>)
  \o (IF s.filters.signature # <<>>
      THEN << SignatureFragment(s.filters.signature) >> ELSE <<>>)
  \o (IF s.filters.proto # <<>> THEN << <<"proto", COLON>> \o s.filters.proto >> ELSE <<>>)
  \o (IF s.filters.port # <<>> THEN << <<"port", COLON>> \o s.filters.port >> ELSE <<>>)

\* A buildQueryString that pushes the q of the URL also when it is empty.
soBuildUnguarded(s, extra, onlyAlerts) ==
  Trim(Join(FilterTokens(s)
            \o << s.searchParams.q >>
            \o extra
            \o (IF onlyAlerts THEN << <<"event_type", COLON, "alert">> >> ELSE <<>>)))

\* SoDashboardsPage.buildQueryString
soBuildQueryString(s, extra, onlyAlerts) ==
  Trim(Join(FilterTokens(s)
            \o (IF s.searchParams.q # <<>> THEN << s.searchParams.q >> ELSE <<>>)
            \o extra
            \o (IF onlyAlerts THEN << <<"event_type", COLON, "alert">> >> ELSE <<>>)))

\* const severities of SoDashboardsPage.loadSeverityStack: the levels in the order
\* of the loop, which is the order of the datasets
severities == <<"low", "medium", "high">>

\* buildQueryString([`alert.severity:${level}`], true) of line 266
SeverityQuery(s, level) ==
  soBuildQueryString(s, << Fragment("alert.severity", <<level>>) >>, TRUE)

\* SoDashboardsPage.refreshAllCharts up to its await
refreshAllCharts(s) ==
  IF s.analyticsLoading THEN s
  ELSE Then(s.cycle + 1, LAMBDA id :
       Then(soBuildQueryString(s, <<>>, TRUE), LAMBDA q :
         [s EXCEPT
            !.analyticsLoading = TRUE,
            !.cycle = id,
            !.calls = Append(@, [left |-> s.followed, settled |-> FALSE, trends |-> {}]),
            !.reqs = @ \cup
              {r \in {Req("loadEventsPerMinute", "eventsPerMinute", id, 0, q),
                      Req("loadTopSignatures", "topSignatures", id, 0, q),
                      Req("loadTopTalkers", "topTalkersSrc", id, 0, q),
                      Req("loadSeverityStack", severities[1], id, 0,
                          SeverityQuery(s, severities[1]))} : r.kind \in s.followed}]))

\* The effect of lines 147-152: it reads TIME_RANGE, searchParams.q, every field
\* of filters and, in refreshAllCharts, loading.  The run that setLoading(true)
\* queues finds loading true and returns.
SoEffect(s) == IF s.phase = "mounted" THEN refreshAllCharts(s) ELSE s

\* setSearchParams({ ...searchParams, q })
soSetSearchParams(s, q) ==
  IF q = s.searchParams.q THEN s
  ELSE Then([s EXCEPT !.searchParams.q = q], LAMBDA a : SoEffect(a))

\* SoDashboardsPage.addFilter
soAddFilter(s, fragment) ==
  Then(soSplit(s.searchParams.q), LAMBDA tokens :
  Then(IF Includes(tokens, fragment) THEN tokens ELSE Append(tokens, fragment),
       LAMBDA pushed :
  Then(Join(pushed), LAMBDA next : soSetSearchParams(s, next))))

\* setFilters(field, value) of an input of the filter panel
soSetFilter(s, field, value) ==
  IF s.filters[field] = value THEN s
  ELSE Then([s EXCEPT !.filters[field] = value], LAMBDA a : SoEffect(a))

\* SoDashboardsPage.applyFilters
applyFilters(s) == Then(Join(FilterTokens(s)), LAMBDA next : soSetSearchParams(s, next))

\* SET_TIME_RANGE(range) on the page
soSetTimeRange(s, range) ==
  IF range = s.TIME_RANGE THEN s
  ELSE Then([s EXCEPT !.TIME_RANGE = range], LAMBDA a : SoEffect(a))

\* SoDashboardsPage.resetFilters: one write of the store, then the URL, then the
\* time range.
resetFilters(s) ==
  Then([s EXCEPT !.filters = NoFilters], LAMBDA a :
  Then(IF a.filters # s.filters THEN SoEffect(a) ELSE a, LAMBDA b :
  Then(soSetSearchParams(b, <<>>), LAMBDA c :
    soSetTimeRange(c, "24h"))))

\* SoDashboardsPage.setChart; chartRefs[key] is set when the page renders.
setChart(s, key, id, rows) ==
  Then(IF s.chartRegistry[key].idx # 0 THEN Destroy(s, key, s.chartRegistry[key].idx)
       ELSE s, LAMBDA a :
  Then(Create(a, key), LAMBDA b :
    [b EXCEPT !.chartRegistry[key] =
       [idx |-> Len(b.instances[key]), id |-> id, rows |-> rows]]))

\* SoDashboardsPage.setSparkline
setSparkline(s, key, id) ==
  IF key \notin s.sparklineRefs THEN s
  ELSE Then(IF s.signatureSparklines[key].idx # 0
            THEN Destroy(s, key, s.signatureSparklines[key].idx) ELSE s, LAMBDA a :
       Then(Create(a, key), LAMBDA b :
         [b EXCEPT !.signatureSparklines[key] =
            [idx |-> Len(b.instances[key]), id |-> id]]))

\* A refreshAllCharts that clears loading when the first of its loaders settles.
soSettleFirst(s, id, loader) ==
  Then([s EXCEPT !.calls[id].left = @ \ {loader},
                 !.calls[id].settled = TRUE,
                 !.analyticsLoading = FALSE], LAMBDA a : SoEffect(a))

\* One loader of the Promise.all of refreshAllCharts settles; after the last,
\* setLoading(false) runs the effect again.
soSettle(s, id, loader) ==
  Then(s.calls[id].left \ {loader}, LAMBDA left :
    IF left # {} THEN [s EXCEPT !.calls[id].left = left]
    ELSE Then([s EXCEPT !.calls[id].left = left,
                        !.calls[id].settled = TRUE,
                        !.analyticsLoading = FALSE], LAMBDA a : SoEffect(a)))

\* SoDashboardsPage.loadEventsPerMinute after its await
soLoadEventsPerMinute(s, r, points) ==
  Then(Drop(s, r), LAMBDA a :
  Then(Draw(setChart(a, "eventsPerMinute", r.id, <<>>), "eventsPerMinute",
            SoChartOf(points)), LAMBDA b :
    soSettle(b, r.id, r.kind)))

\* The catch of SoDashboardsPage.loadEventsPerMinute (lines 244-248)
soCatchEventsPerMinute(s, r) ==
  Then(Fail(s, r), LAMBDA a :
  Then(Draw(setChart(a, "eventsPerMinute", r.id, <<>>), "eventsPerMinute", "failed"),
       LAMBDA b :
    soSettle(b, r.id, r.kind)))

\* The index of level in severities.
LevelIndex(level) == CHOOSE i \in 1..Len(severities) : severities[i] = level

\* SoDashboardsPage.loadSeverityStack after the await of one turn of its loop:
\* the response of r.target has points buckets, r.n is labels.length so far.
\* The next turn composes its request; after the last one the chart is set.
soLoadSeverityStack(s, r, points) ==
  Then(Drop(s, r), LAMBDA a :
  Then(IF r.n = 0 THEN points ELSE r.n, LAMBDA labelsLength :
  Then(LevelIndex(r.target), LAMBDA i :
    IF i < Len(severities)
      THEN [a EXCEPT !.reqs = @ \cup
              {[Req("loadSeverityStack", severities[i + 1], r.id, 0,
                    SeverityQuery(a, severities[i + 1]))
                  EXCEPT !.n = labelsLength]}]
    ELSE Then(Draw(setChart(a, "severityStack", r.id, <<>>), "severityStack",
                   IF labelsLength = 0 THEN "noData" ELSE "chart"), LAMBDA b :
           soSettle(b, r.id, r.kind)))))

\* SoDashboardsPage.loadTopTalkers(field, key) after its await
soLoadTopTalkers(s, r, rows) ==
  Then(Drop(s, r), LAMBDA a :
  Then(Draw(setChart(a, r.target, r.id, rows), r.target,
            IF rows = <<>> THEN "noData" ELSE "chart"), LAMBDA b :
    soSettle(b, r.id, r.kind)))

\* SoDashboardsPage.loadTopSignatures after its first await: the rows are
\* rendered (each row's canvas is stored in sparklineRefs), the chart is set and
\* one histogramTime request per row is issued.
soLoadTopSignatures(s, r, rows) ==
  Then([s EXCEPT
          !.reqs = @ \ {r},
          !.topSignaturesRows = rows,
          !.sparklineRefs = IF s.phase = "mounted" THEN @ \cup Keys(rows) ELSE @],
       LAMBDA a :
  Then(Draw(setChart(a, "topSignatures", r.id, rows), "topSignatures",
            ChartOf(Len(rows))), LAMBDA b :
  Then([b EXCEPT
          !.calls[r.id].trends = Keys(rows),
          !.reqs = @ \cup
            { Req("loadSignatureTrend", k, r.id, 0,
                  soBuildQueryString(b, << SignatureFragment(Chars(k)) >>, TRUE))
                : k \in Keys(rows) }],
       LAMBDA c :
    IF rows = <<>> THEN soSettle(c, r.id, r.kind) ELSE c)))

\* The catch of SoDashboardsPage.loadTopSignatures (lines 405-409)
soCatchTopSignatures(s, r) ==
  Then([Fail(s, r) EXCEPT !.topSignaturesRows = <<>>], LAMBDA a :
    soSettle(a, r.id, r.kind))

\* The catch in the body of the rows.map of loadTopSignatures (lines 400-402)
soCatchSignatureTrend(s, r) ==
  Then(Fail(s, r), LAMBDA a :
  Then(a.calls[r.id].trends \ {r.target}, LAMBDA trends :
  Then([a EXCEPT !.calls[r.id].trends = trends], LAMBDA b :
    IF trends = {} THEN soSettle(b, r.id, "loadTopSignatures") ELSE b)))

\* The body of the rows.map of loadTopSignatures after its await
soLoadSignatureTrend(s, r) ==
  Then(Drop(s, r), LAMBDA a :
  Then(setSparkline(a, r.target, r.id), LAMBDA b :
  Then(b.calls[r.id].trends \ {r.target}, LAMBDA trends :
  Then([b EXCEPT !.calls[r.id].trends = trends], LAMBDA c :
    IF trends = {} THEN soSettle(c, r.id, "loadTopSignatures") ELSE c))))

\* The onCleanup of SoDashboardsPage
soOnCleanup(s) ==
  Then(DestroyEach(s, Held(s.chartRegistry), s.chartRegistry), LAMBDA a :
  Then(DestroyEach(a, Held(s.signatureSparklines), s.signatureSparklines), LAMBDA b :
    [b EXCEPT !.phase = "unmounted"]))

\* ------------------------------------------------------------ the inputs

Pages == {"Overview", "SoDashboardsPage"}
TimeRanges == {"1h", "24h"}
Sensors == {<<"sensor-1">>}
\* The q of the URL the page is opened with, and the texts typed in the textarea.
Queries == {<<>>, <<"proto", COLON, "tcp">>, SignatureFragment(Chars("ET SCAN"))}
\* The quick filter buttons of Overview (line 729), two of the four.
QuickFilters == {<<"event_type", COLON, "alert">>, <<"proto", COLON, "tcp">>}
\* The buttons of SoDashboardsPage that call addFilter alone (lines 241 and 738).
SoQuickFilters == {<<"event_type", COLON, "alert">>, <<"pcap", COLON, "open">>}
\* The levels of the severity chart's onClick.
Severities == {<<"1">>}
\* A text typed in an input of the filter panel of SoDashboardsPage.
SoInputs == [sensor |-> <<"sensor-1">>, signature |-> Chars("ET SCAN")]

NoOp == [op |-> "none", arg |-> <<>>]

\* The signals, stores and registries of a page when its component function has
\* run, but for the URL and the filters store.
Constructed ==
  /\ page \in Pages
  /\ phase = "new"
  /\ ops = 0
  /\ version = 0
  /\ rid = 0
  /\ cycle = 0
  /\ TIME_RANGE = "24h"
  /\ analyticsLoading = FALSE
  /\ eventsOverTimeLoading = 0
  /\ tables = [t \in Tables |-> [loading |-> FALSE, rows |-> <<>>, gen |-> NoGen]]
  /\ protocols = [loading |-> FALSE, data |-> <<>>, gen |-> NoGen,
                  pie |-> [idx |-> 0, rows |-> <<>>, gen |-> NoGen]]
  /\ histogram = [idx |-> 0, labelsOf |-> 0, datasets |-> <<>>]
  /\ labels = <<>>
  /\ chartRegistry = [k \in ChartKeys |-> [idx |-> 0, id |-> 0, rows |-> <<>>]]
  /\ signatureSparklines = [k \in Signatures |-> [idx |-> 0, id |-> 0]]
  /\ sparklineRefs = {}
  /\ topSignaturesRows = <<>>
  /\ instances = [k \in InstanceKeys |-> <<>>]
  /\ peak = [k \in InstanceKeys |-> 0]
  /\ reqs = {}
  /\ calls = <<>>
  /\ runs = 0
  /\ shown = [k \in ChartKeys |-> "none"]
  /\ failures = 0
  /\ sseCalls = <<>>
  /\ console = {}

\* No handler has run yet.
NoLog ==
  [op |-> "none", arg |-> <<>>, field |-> "", value |-> <<>>,
   query |-> <<>>, before |-> [filters |-> filters, searchParams |-> searchParams],
   cycle |-> 0, calls |-> 0, failures |-> 0, idle |-> TRUE,
   prev |-> NoOp]

Init ==
  /\ Constructed
  /\ followed = SoLoaders
  /\ searchParams \in [sensor : {<<>>}, q : Queries]
  /\ filters = IF page = "Overview" THEN [query |-> <<>>] ELSE NoFilters
  /\ log = NoLog

\* What the filter panel of SoDashboardsPage may hold.
FilterInputs ==
  [sensor : {<<>>, <<"sensor-1">>},
   severity : {<<>>, << <<"1">> >>, << <<"1">>, <<"2">> >>},
   ip : {<<>>, <<"10.0.0.1">>},
   signature : {<<>>, Chars("ET SCAN")},
   proto : {<<>>, <<"tcp">>},
   port : {<<>>, <<"443">>}]

\* A page whose URL and whose filters store hold any of the inputs of
\* buildQueryString.
InitQuery ==
  /\ Constructed
  /\ followed = SoLoaders
  /\ searchParams \in [sensor : {<<>>} \cup Sensors, q : Queries]
  /\ filters \in IF page = "Overview" THEN [query : Queries] ELSE FilterInputs
  /\ log = NoLog

\* The filter state of the page: the filters store and the parameters of the URL.
FilterState(s) == [filters |-> s.filters, searchParams |-> s.searchParams]

\* The query the page stores: filters.query in Overview, the q of the URL in
\* SoDashboardsPage.
StoredQuery(s) == IF s.page = "Overview" THEN s.filters.query ELSE s.searchParams.q

\* The page is mounted: its effects run for the first time, in their order.
mount(s) ==
  Then([s EXCEPT !.phase = "mounted"], LAMBDA a :
    IF a.page = "Overview" THEN Flush(a, TRUE, TRUE) ELSE SoEffect(a))

Mount ==
  /\ phase = "new"
  /\ \E s \in {State} : \E t \in {mount(s)} : Commit(t)

\* The page is shown and takes a click or a key.
Interactive ==
  /\ phase = "mounted"
  /\ ops < MaxOps

\* A handler of the user interface has run in state s and left state t.
User(op, field, value, arg, s, t) ==
  /\ t.cycle <= MaxCycles \/ page = "Overview"
  /\ \E done \in {[t EXCEPT
         !.ops = ops + 1,
         !.log = [op |-> op, arg |-> arg, field |-> field, value |-> value,
                  query |-> StoredQuery(s), before |-> FilterState(s),
                  cycle |-> cycle, calls |-> Len(calls),
                  failures |-> failures,
                  idle |-> \A r \in reqs : r.kind \notin Loaders \cup SoLoaders,
                  prev |-> [op |-> log.op, arg |-> log.arg]]]} : Commit(done)

\* A response has arrived and its continuation has left state t.
Respond(t) ==
  /\ t.cycle <= MaxCycles \/ page = "Overview"
  /\ Commit(t)

\* ------------------------------------------------ Overview: the actions

Shown(key) == chartRegistry[key].idx # 0

RefreshClick ==
  /\ page = "Overview"
  /\ Interactive
  /\ \E s \in {State} : \E t \in {refreshClick(s)} :
       User("refresh", "", <<>>, <<>>, s, t)

TimeRangeClick ==
  /\ page = "Overview"
  /\ Interactive
  /\ \E range \in TimeRanges :
     \E s \in {State} : \E t \in {setTimeRange(s, range)} :
       User("timeRange", "", <<>>, <<range>>, s, t)

SensorChange ==
  /\ page = "Overview"
  /\ Interactive
  /\ \E sensor \in Sensors \cup {<<>>} :
     \E s \in {State} : \E t \in {sensorChange(s, sensor)} :
       User("sensor", "", <<>>, sensor, s, t)

\* onInput of the textarea
QueryInput ==
  /\ page = "Overview"
  /\ Interactive
  /\ \E text \in Queries :
     \E s \in {State} : \E t \in {setFiltersQuery(s, text)} :
       User("input", "", <<>>, text, s, t)

\* onClick of the remove button of a tag
TagRemove ==
  /\ page = "Overview"
  /\ Interactive
  /\ \E tags \in {splitQuery(filters.query)} : \E i \in 1..Len(tags) :
     \E item \in {tags[i]} :
     \E s \in {State} : \E t \in {removeFilter(s, item)} :
       User("removeFilter", "", <<>>, item, s, t)

QuickFilter ==
  /\ page = "Overview"
  /\ Interactive
  /\ \E f \in QuickFilters :
     \E s \in {State} : \E t \in {addFilter(s, f)} :
       User("addFilter", "", <<>>, f, s, t)

ApplyClick ==
  /\ page = "Overview"
  /\ Interactive
  /\ \E s \in {State} : \E t \in {applyClick(s)} :
       User("apply", "", <<>>, <<>>, s, t)

ResetClick ==
  /\ page = "Overview"
  /\ Interactive
  /\ \E s \in {State} : \E t \in {resetClick(s)} :
       User("reset", "", <<>>, <<>>, s, t)

\* onRowClick of a table
TableRowClick ==
  /\ page = "Overview"
  /\ Interactive
  /\ \E table \in Tables : \E i \in 1..Len(tables[table].rows) :
     \E field \in {TableField(table)} :
     \E value \in {Chars(tables[table].rows[i].key)} :
     \E fragment \in {TableRowFragment(field, value)} :
     \E s \in {State} : \E t \in {handleTableRowClick(s, field, value)} :
       User("addFilter", field, value, fragment, s, t)

\* What a click hit, as the log keeps it: the index of the element or of its
\* dataset in digits, nothing for a click beside every element.
Hit(elements, field) == IF elements = <<>> THEN <<>> ELSE Decimal(elements[1][field])

\* onClick of the severity chart
SeverityClick ==
  /\ page = "Overview"
  /\ Interactive
  /\ Shown("severityStack")
  /\ \E elements \in (IF shown["severityStack"] = "chart" THEN Elements(1, 3)
                      ELSE {<<>>}) :
     \E s \in {State} : \E t \in {severityClick(s, elements)} :
       User("severityClick", "datasetIndex", Hit(elements, "datasetIndex"), <<>>, s, t)

\* onClick of a top-talker chart
TalkerClick ==
  /\ page = "Overview"
  /\ Interactive
  /\ \E key \in {"topTalkerSrc", "topTalkerDst"} :
       /\ Shown(key)
       /\ \E data \in {chartRegistry[key].rows} :
          \E elements \in Elements(Len(data), 1) :
          \E field \in {IF key = "topTalkerSrc" THEN "src_ip" ELSE "dest_ip"} :
          \E s \in {State} : \E t \in {talkerClick(s, field, data, elements)} :
            User("talkerClick", field, Hit(elements, "index"), <<>>, s, t)

\* onClick of the Top Signatures chart
TopSignaturesClick ==
  /\ page = "Overview"
  /\ Interactive
  /\ Shown("topSignatures")
  /\ \E i \in 1..Len(chartRegistry["topSignatures"].rows) :
     \E value \in {Chars(chartRegistry["topSignatures"].rows[i].key)} :
     \E fragment \in {SignatureFragment(value)} :
     \E s \in {State} : \E t \in {addFilter(s, fragment)} :
       User("addFilter", "alert.signature", value, fragment, s, t)

\* The router leaves the page.
unmount(s) == IF s.page = "Overview" THEN onCleanup(s) ELSE soOnCleanup(s)

Unmount ==
  /\ phase = "mounted"
  /\ \E s \in {State} : \E t \in {unmount(s)} : Commit(t)

\* A batch of a table's stream arrives.
TableBatch ==
  /\ page = "Overview"
  /\ \E r \in reqs :
       /\ r.kind = "getSseAgg"
       /\ r.target \in Tables
       /\ r.n < MaxBatches
       /\ \E rows \in BatchResults(r.target) :
          \E s \in {State} : \E t \in {sseBatch(s, r, rows)} : Respond(t)

\* A batch of the protocols stream arrives.
ProtocolsBatch ==
  /\ page = "Overview"
  /\ \E r \in reqs :
       /\ r.kind = "getSseAgg"
       /\ r.target = "protocols"
       /\ r.n < MaxBatches
       /\ \E rows \in BatchResults(r.target) :
          \E s \in {State} : \E t \in {sseBatch(s, r, rows)} : Respond(t)

SseDone ==
  /\ page = "Overview"
  /\ \E r \in reqs :
       /\ r.kind = "getSseAgg"
       /\ \E s \in {State} : \E t \in {sseDone(s, r)} : Respond(t)

EventTypesResponse ==
  /\ page = "Overview"
  /\ \E r \in reqs :
       /\ r.kind = "getEventTypes"
       /\ \E s \in {State} : \E t \in {eventTypesResponse(s, r)} : Respond(t)

HistogramResponse ==
  /\ page = "Overview"
  /\ \E r \in reqs :
       /\ r.kind = "histogramTime"
       /\ \E count \in BucketCounts :
          \E s \in {State} : \E t \in {histogramResponse(s, r, count)} : Respond(t)

ChartResponse ==
  /\ page = "Overview"
  /\ \E r \in reqs :
       /\ r.kind \in {"loadEventsPerMinute", "loadSeverityStack"}
       /\ \E points \in BucketCounts :
          \E s \in {State} : \E t \in {loadChart(s, r, points)} : Respond(t)

TalkersResponse ==
  /\ page = "Overview"
  /\ \E r \in reqs :
       /\ r.kind = "loadTopTalkers"
       /\ \E rows \in TalkerResults :
          \E s \in {State} : \E t \in {loadTopTalkers(s, r, rows)} : Respond(t)

TopSignaturesResponse ==
  /\ page = "Overview"
  /\ \E r \in reqs :
       /\ r.kind = "loadTopSignatures"
       /\ \E rows \in SignatureResults :
          \E s \in {State} : \E t \in {loadTopSignatures(s, r, rows)} : Respond(t)

SignatureTrendResponse ==
  /\ page = "Overview"
  /\ \E r \in reqs :
       /\ r.kind = "loadSignatureTrend"
       /\ \E s \in {State} : \E t \in {loadSignatureTrend(s, r)} : Respond(t)

\* A further request may be rejected.
MayFail == failures < MaxFailures

\* The promise of a stream rejects.
StreamFailure ==
  /\ page = "Overview"
  /\ MayFail
  /\ \E r \in reqs :
       /\ r.kind = "getSseAgg"
       /\ \E s \in {State} : \E t \in {sseFail(s, r)} : Respond(t)

HistogramFailure ==
  /\ page = "Overview"
  /\ MayFail
  /\ \E r \in reqs :
       /\ r.kind = "histogramTime"
       /\ \E s \in {State} : \E t \in {histogramFail(s, r)} : Respond(t)

\* The request of loadEventsPerMinute, loadSeverityStack or loadTopSignatures is
\* rejected.
LoaderFailure ==
  /\ page = "Overview"
  /\ MayFail
  /\ \E r \in reqs :
       /\ r.kind \in {"loadEventsPerMinute", "loadSeverityStack", "loadTopSignatures"}
       /\ \E s \in {State} : \E t \in {loaderRejects(s, r)} : Respond(t)

TalkersFailure ==
  /\ page = "Overview"
  /\ MayFail
  /\ \E r \in reqs :
       /\ r.kind = "loadTopTalkers"
       /\ \E s \in {State} : \E t \in {talkersReject(s, r)} : Respond(t)

\* ------------------------------------------ SoDashboardsPage: the actions

SoRefreshClick ==
  /\ page = "SoDashboardsPage"
  /\ Interactive
  /\ \E s \in {State} : \E t \in {refreshAllCharts(s)} :
       User("refresh", "", <<>>, <<>>, s, t)

SoTimeRangeClick ==
  /\ page = "SoDashboardsPage"
  /\ Interactive
  /\ \E range \in TimeRanges :
     \E s \in {State} : \E t \in {soSetTimeRange(s, range)} :
       User("timeRange", "", <<>>, <<range>>, s, t)

\* onInput of an input of the filter panel (the sensor input is the sensor change)
SoInput ==
  /\ page = "SoDashboardsPage"
  /\ Interactive
  /\ \E field \in DOMAIN SoInputs : \E value \in {<<>>, SoInputs[field]} :
     \E s \in {State} : \E t \in {soSetFilter(s, field, value)} :
       User(field, "", <<>>, value, s, t)

SoApplyClick ==
  /\ page = "SoDashboardsPage"
  /\ Interactive
  /\ \E s \in {State} : \E t \in {applyFilters(s)} :
       User("apply", "", <<>>, <<>>, s, t)

SoResetClick ==
  /\ page = "SoDashboardsPage"
  /\ Interactive
  /\ \E s \in {State} : \E t \in {resetFilters(s)} :
       User("reset", "", <<>>, <<>>, s, t)

SoQuickFilter ==
  /\ page = "SoDashboardsPage"
  /\ Interactive
  /\ \E f \in SoQuickFilters :
     \E s \in {State} : \E t \in {soAddFilter(s, f)} :
       User("addFilter", "", <<>>, f, s, t)

\* The onClick of the Top Signatures chart of SoDashboardsPage (lines 372-377):
\* addFilter, then refreshAllCharts
soSignatureClick(s, fragment) ==
  Then(soAddFilter(s, fragment), LAMBDA a : refreshAllCharts(a))

\* The onClick of the severity chart of SoDashboardsPage (lines 290-297)
soSeverityClick(s, elements) ==
  IF elements = <<>> THEN s
  ELSE Then(elements[1].datasetIndex, LAMBDA datasetIndex :
         IF datasetIndex + 1 \notin DOMAIN severities THEN s
         ELSE Then(severities[datasetIndex + 1], LAMBDA level :
           Then(soAddFilter(s, Fragment("alert.severity", <<level>>)), LAMBDA a :
             refreshAllCharts(a))))

\* The onClick of a top-talker chart of SoDashboardsPage (lines 336-341): the
\* $context of the element holds raw, the value of the dataset at the element's
\* index, which is rows[index].count, and no label.
soTalkerClick(s, field, rows, elements) ==
  IF elements = <<>> THEN s
  ELSE Then(rows[elements[1].index + 1].count, LAMBDA raw :
       Then(IF raw # 0 THEN Decimal(raw) ELSE <<"undefined">>, LAMBDA label :
       Then(soAddFilter(s, Fragment(field, label)), LAMBDA a :
         refreshAllCharts(a))))

SoSeverityClick ==
  /\ page = "SoDashboardsPage"
  /\ Interactive
  /\ Shown("severityStack")
  /\ \E elements \in (IF shown["severityStack"] = "chart" THEN Elements(1, 3)
                      ELSE {<<>>}) :
     \E s \in {State} : \E t \in {soSeverityClick(s, elements)} :
       User("severityClick", "datasetIndex", Hit(elements, "datasetIndex"), <<>>, s, t)

SoTalkerClick ==
  /\ page = "SoDashboardsPage"
  /\ Interactive
  /\ Shown("topTalkersSrc")
  /\ \E rows \in {chartRegistry["topTalkersSrc"].rows} :
     \E elements \in Elements(Len(rows), 1) :
     \E s \in {State} : \E t \in {soTalkerClick(s, "src_ip", rows, elements)} :
       User("talkerClick", "src_ip", Hit(elements, "index"), <<>>, s, t)

SoTalkersResponse ==
  /\ page = "SoDashboardsPage"
  /\ \E r \in reqs :
       /\ r.kind = "loadTopTalkers"
       /\ \E rows \in TalkerResults :
          \E s \in {State} : \E t \in {soLoadTopTalkers(s, r, rows)} : Respond(t)

SoSignatureClick ==
  /\ page = "SoDashboardsPage"
  /\ Interactive
  /\ Shown("topSignatures")
  /\ \E i \in 1..Len(chartRegistry["topSignatures"].rows) :
     \E value \in {Chars(chartRegistry["topSignatures"].rows[i].key)} :
     \E fragment \in {SignatureFragment(value)} :
     \E s \in {State} : \E t \in {soSignatureClick(s, fragment)} :
       User("addFilter", "alert.signature", value, fragment, s, t)

SoChartResponse ==
  /\ page = "SoDashboardsPage"
  /\ \E r \in reqs :
       /\ r.kind = "loadEventsPerMinute"
       /\ \E points \in BucketCounts :
          \E s \in {State} : \E t \in {soLoadEventsPerMinute(s, r, points)} : Respond(t)

SoTopSignaturesResponse ==
  /\ page = "SoDashboardsPage"
  /\ \E r \in reqs :
       /\ r.kind = "loadTopSignatures"
       /\ \E rows \in SignatureResults :
          \E s \in {State} : \E t \in {soLoadTopSignatures(s, r, rows)} : Respond(t)

SoSeverityStackResponse ==
  /\ page = "SoDashboardsPage"
  /\ \E r \in reqs :
       /\ r.kind = "loadSeverityStack"
       /\ \E points \in BucketCounts :
          \E s \in {State} : \E t \in {soLoadSeverityStack(s, r, points)} : Respond(t)

SoSignatureTrendResponse ==
  /\ page = "SoDashboardsPage"
  /\ \E r \in reqs :
       /\ r.kind = "loadSignatureTrend"
       /\ \E s \in {State} : \E t \in {soLoadSignatureTrend(s, r)} : Respond(t)

SoChartFailure ==
  /\ page = "SoDashboardsPage"
  /\ MayFail
  /\ \E r \in reqs :
       /\ r.kind = "loadEventsPerMinute"
       /\ \E s \in {State} : \E t \in {soCatchEventsPerMinute(s, r)} : Respond(t)

SoTopSignaturesFailure ==
  /\ page = "SoDashboardsPage"
  /\ MayFail
  /\ \E r \in reqs :
       /\ r.kind = "loadTopSignatures"
       /\ \E s \in {State} : \E t \in {soCatchTopSignatures(s, r)} : Respond(t)

SoSignatureTrendFailure ==
  /\ page = "SoDashboardsPage"
  /\ MayFail
  /\ \E r \in reqs :
       /\ r.kind = "loadSignatureTrend"
       /\ \E s \in {State} : \E t \in {soCatchSignatureTrend(s, r)} : Respond(t)

\* ------------------------------------------------------ specifications

FilterHandlers ==
  \/ QueryInput
  \/ TagRemove
  \/ QuickFilter
  \/ ApplyClick
  \/ ResetClick
  \/ SensorChange
  \/ TopSignaturesClick

SoHandlers ==
  \/ SoRefreshClick
  \/ SoTimeRangeClick
  \/ SoInput
  \/ SoApplyClick
  \/ SoResetClick
  \/ SoQuickFilter
  \/ SoSignatureClick

Responses ==
  \/ TableBatch
  \/ ProtocolsBatch
  \/ SseDone
  \/ EventTypesResponse
  \/ HistogramResponse
  \/ ChartResponse
  \/ TalkersResponse
  \/ TopSignaturesResponse
  \/ SignatureTrendResponse

SoResponses ==
  \/ SoChartResponse
  \/ SoTopSignaturesResponse
  \/ SoSignatureTrendResponse

Failures ==
  \/ StreamFailure
  \/ HistogramFailure
  \/ LoaderFailure
  \/ TalkersFailure

SoFailures ==
  \/ SoChartFailure
  \/ SoTopSignaturesFailure
  \/ SoSignatureTrendFailure

Next ==
  \/ Mount
  \/ RefreshClick
  \/ TimeRangeClick
  \/ FilterHandlers
  \/ TableRowClick
  \/ SeverityClick
  \/ TalkerClick
  \/ SoHandlers
  \/ SoSeverityClick
  \/ SoTalkerClick
  \/ Responses
  \/ SoResponses
  \/ SoSeverityStackResponse
  \/ SoTalkersResponse
  \/ Failures
  \/ SoFailures
  \/ Unmount

Spec == Init /\ [][Next]_vars

\* A page opened with a URL without q.
InitNoQuery ==
  /\ Init
  /\ searchParams.q = <<>>

\* Overview opened with a URL without q.
InitOverview ==
  /\ InitNoQuery
  /\ page = "Overview"

\* Where every response of the charts or of the streams is followed, the user
\* runs MaxChartOps handlers.
Few == ops < MaxChartOps

\* The response of a time chart has buckets.
WithBuckets ==
  \A k \in {"eventsPerMinute", "severityStack"} : shown'[k] = "chart" \/ shown'[k] = shown[k]

\* The analytics charts of both pages, from a URL without q: the refresh
\* handlers, every response of a chart loader, the teardown.
NextCharts ==
  \/ Mount
  \/ (Few /\ RefreshClick)
  \/ (ChartResponse /\ WithBuckets)
  \/ TalkersResponse
  \/ TopSignaturesResponse
  \/ SignatureTrendResponse
  \/ (Few /\ SoRefreshClick)
  \/ (Few /\ SoTimeRangeClick)
  \/ (Few /\ SoInput)
  \/ (Few /\ SoApplyClick)
  \/ (Few /\ SoResetClick)
  \/ (Few /\ SoQuickFilter)
  \/ (Few /\ SoSignatureClick)
  \/ (SoResponses /\ WithBuckets)
  \/ Unmount

SpecCharts == InitNoQuery /\ [][NextCharts]_vars

\* The texts of at most n characters over the double quote, the space and two
\* letters.
RECURSIVE Texts(_)
Texts(n) ==
  IF n = 0 THEN {<<>>}
  ELSE Texts(n - 1) \cup {Append(t, c) : t \in Texts(n - 1), c \in {QUOTE, SPACE, "a", "b"}}

\* Overview opened with a URL whose q is any text.
InitTokens ==
  /\ Constructed
  /\ followed = SoLoaders
  /\ page = "Overview"
  /\ searchParams \in [sensor : {<<>>}, q : Texts(MaxText)]
  /\ filters = [query |-> <<>>]
  /\ log = NoLog

\* The tokenizer of Overview over every q: the mount that stores the q, the
\* buttons that add a fragment, the tags that remove one.
NextTokens ==
  \/ Mount
  \/ QuickFilter
  \/ TagRemove

SpecTokens == InitTokens /\ [][NextTokens]_vars

\* buildQueryString of both pages over its inputs: the refresh that composes the
\* query of every request, and the top-signature response that composes the
\* query of the trend of a row.
NextQuery ==
  \/ Mount
  \/ (Few /\ RefreshClick)
  \/ (Few /\ SoRefreshClick)
  \/ SoTopSignaturesResponse

SpecQuery == InitQuery /\ [][NextQuery]_vars

\* The outcomes of the requests of the analytics charts of both pages, from a
\* URL without q: a response with data, a response without, a rejection.
NextOutcomes ==
  \/ Mount
  \/ (Few /\ RefreshClick)
  \/ ChartResponse
  \/ TalkersResponse
  \/ TopSignaturesResponse
  \/ LoaderFailure
  \/ TalkersFailure
  \/ (Few /\ SoRefreshClick)
  \/ SoResponses
  \/ SoFailures

SpecOutcomes == InitNoQuery /\ [][NextOutcomes]_vars

\* The streamed visuals of Overview, from a URL without q.
NextStreams ==
  \/ Mount
  \/ (Few /\ RefreshClick)
  \/ (Few /\ TableRowClick)
  \/ TableBatch
  \/ ProtocolsBatch
  \/ SseDone
  \/ StreamFailure

SpecStreams == InitOverview /\ [][NextStreams]_vars

\* The events-by-type histogram of Overview, from a URL without q.
NextHistogram ==
  \/ Mount
  \/ RefreshClick
  \/ EventTypesResponse
  \/ HistogramResponse
  \/ Unmount

SpecHistogram == InitOverview /\ [][NextHistogram]_vars

\* The response answers a request of the latest refresh.
Latest ==
  \A r \in reqs \ reqs' :
    IF page = "Overview" THEN r.ver = (IF r.kind = "getSseAgg" THEN version ELSE rid)
    ELSE r.id = cycle

\* The filter state of both pages: every handler that changes it, and the
\* responses of the latest refresh that draw what the user clicks on.
NextFilters ==
  \/ Mount
  \/ FilterHandlers
  \/ SoHandlers
  \/ (TopSignaturesResponse /\ Latest)
  \/ (SoTopSignaturesResponse /\ Latest)

SpecFilters == Init /\ [][NextFilters]_vars

\* ------------------------------------------------------------ the claims

\* The tokenizer addFilter of the page uses.
Tokens(q) == IF page = "Overview" THEN splitQuery(q) ELSE soSplit(q)

Count(seq, x) == Cardinality({i \in 1..Len(seq) : seq[i] = x})

\* The text of a value without the quotes that enclose it.
Unquote(v) ==
  IF Len(v) >= 2 /\ v[1] = QUOTE /\ v[Len(v)] = QUOTE THEN SubSeq(v, 2, Len(v) - 1)
  ELSE v

\* The {field, value} pair a token field:value or field:"value" stands for.
ParseToken(t) ==
  IF Len(t) >= 2 /\ t[2] = COLON
  THEN [field |-> t[1], value |-> Unquote(SubSeq(t, 3, Len(t)))]
  ELSE [field |-> "", value |-> t]

\* The last generation started for the charts: the calls of refreshAnalytics in
\* Overview, the cycles of refreshAllCharts in SoDashboardsPage.
ChartGeneration == IF page = "Overview" THEN Len(calls) ELSE cycle
\* The last generation started for the sparklines.
TrendGeneration == IF page = "Overview" THEN runs ELSE cycle

\* C1: in no step is a visual (table rows, protocol store or pie, histogram,
\* analytics chart, sparkline) updated with data of a request that a refresh
\* older than the latest one issued.
C1_OnlyLatestApplied ==
  [][ /\ \A t \in Tables :
           tables'[t].gen # tables[t].gen => tables'[t].gen.id = cycle'
      /\ protocols'.gen \notin {protocols.gen, NoGen} => protocols'.gen.id = cycle'
      /\ protocols'.pie.gen \notin {protocols.pie.gen, NoGen}
           => protocols'.pie.gen.id = cycle'
      /\ histogram'.datasets # histogram.datasets
           => \A i \in 1..Len(histogram'.datasets) : histogram'.datasets[i].id = cycle'
      /\ \A k \in ChartKeys :
           chartRegistry'[k] # chartRegistry[k] => chartRegistry'[k].id = ChartGeneration'
      /\ \A k \in Signatures :
           signatureSparklines'[k] # signatureSparklines[k]
           /\ signatureSparklines'[k].idx # 0
           => signatureSparklines'[k].id = TrendGeneration'
    ]_vars

\* C2: in Overview, the step that consumes the response of a loader whose
\* requestId is no longer rid draws no chart and sets no rows: chartRegistry,
\* every chart instance, the signature rows and the sparkline effect stay as
\* they are.
C2_SupersededHasNoEffect ==
  [][ \A r \in reqs \ reqs' :
        page = "Overview" /\ r.kind \in Loaders /\ r.ver # rid
        => /\ chartRegistry' = chartRegistry
           /\ instances' = instances
           /\ topSignaturesRows' = topSignaturesRows
           /\ signatureSparklines' = signatureSparklines
           /\ runs' = runs
    ]_vars

\* C2 witness: the loadEventsPerMinute of the first call has settled after the
\* second call started, and has drawn nothing.
C2_Witness ==
  /\ page = "Overview"
  /\ Len(calls) = 2
  /\ "loadEventsPerMinute" \notin calls[1].left
  /\ instances["eventsPerMinute"] = <<>>

\* C3: a batch or the done marker of a protocols stream that an earlier refresh
\* opened leaves protocols.data and the protocol pie as they are.
C3_LateBatchDiscarded ==
  [][ \A r \in reqs \ reqs' :
        r.kind = "getSseAgg" /\ r.target = "protocols" /\ r.id < cycle
        => /\ protocols'.data = protocols.data
           /\ protocols'.gen = protocols.gen
           /\ protocols'.pie = protocols.pie
           /\ instances' = instances
    ]_vars

\* C3 witness: the protocols stream of refresh 1 delivered a first batch, refresh
\* 2 started and drew its own first batch, and a later batch of the stream of
\* refresh 1 arrived and was dropped.
C3_Witness ==
  /\ cycle = 2
  /\ protocols.gen.id = 2
  /\ protocols.data # <<>>
  /\ \E r \in reqs :
       /\ r.kind = "getSseAgg" /\ r.target = "protocols" /\ r.id = 1
       /\ r.n = 2 /\ r.dropped = 1

\* C4: for every key of the chart registry no two instances are ever live at
\* once (peak samples every step of an upsert), and while the page is mounted
\* the instance the registry holds is the one live instance of its key, every
\* earlier one being destroyed.
C4_OneLivePerKey ==
  \A k \in ChartKeys :
    /\ peak[k] <= 1
    /\ Live(instances, k) \subseteq {chartRegistry[k].idx}
    /\ phase = "mounted" /\ instances[k] # <<>>
         => Live(instances, k) = {Len(instances[k])}

\* C4 witness: an upsert has replaced a chart, on either page.
C4_Witness ==
  /\ phase = "mounted"
  /\ Len(instances["topSignatures"]) = 2
  /\ instances["topSignatures"] = <<1, 0>>

\* C5: the step that tears the page down leaves every chart instance that was
\* ever created with exactly one destroy() call.
C5_TeardownDestroysOnce ==
  [][ phase = "mounted" /\ phase' = "unmounted"
        => \A k \in InstanceKeys :
             \A i \in 1..Len(instances'[k]) : instances'[k][i] = 1
    ]_vars

\* C5 witness: teardown of a page that had redrawn a chart and drawn sparklines.
C5_Witness ==
  /\ phase = "unmounted"
  /\ instances["topSignatures"] = <<1, 1>>
  /\ \E k \in Signatures : instances[k] = <<1>>

\* C6: when no top-signature request and no trend request is in flight, the
\* signatures with a live sparkline are exactly the signatures of the rows.
C6_SparklinesMatchRows ==
  phase = "mounted"
  /\ (\A r \in reqs : r.kind \notin {"loadTopSignatures", "loadSignatureTrend"})
  => {k \in Signatures : Live(instances, k) # {}} = Keys(topSignaturesRows)

\* The handlers that change the filter state.
Mutations == {"addFilter", "removeFilter", "apply", "reset", "sensor"}

\* C7: after a handler that changed the filter state (the filters store or the
\* parameters of the URL) a refresh cycle newer than every cycle started before
\* the handler exists, for the streamed visuals and for the charts.
C7_MutationStartsCycle ==
  log.op \in Mutations /\ log.before # FilterState(State)
  => /\ cycle > log.cycle
     /\ (page = "Overview" => Len(calls) > log.calls)

\* C8: after addFilter(fragment) has run twice in a row, the stored query is
\* what the first call left and its token list holds the fragment once.
C8_AddFilterIdempotent ==
  log.op = "addFilter" /\ log.prev = [op |-> "addFilter", arg |-> log.arg]
  => /\ StoredQuery(State) = log.query
     /\ Count(Tokens(StoredQuery(State)), log.arg) = 1

\* C9: after a click handler stored the fragment of {field, value}, exactly one
\* token of the stored query stands for that pair.
C9_RoundTrip ==
  log.op = "addFilter" /\ log.field # ""
  => Cardinality({i \in 1..Len(Tokens(StoredQuery(State))) :
                    ParseToken(Tokens(StoredQuery(State))[i])
                      = [field |-> log.field, value |-> log.value]}) = 1

\* C10: after the click on the ET SCAN bar of the Top Signatures chart of
\* Overview, from an empty query, the token list of the stored query is the one
\* token alert.signature:"ET SCAN" and a newer refreshAnalytics call has started.
C10_ScenarioB ==
  /\ page = "Overview"
  /\ log.op = "addFilter"
  /\ log.field = "alert.signature"
  /\ log.value = Chars("ET SCAN")
  /\ log.query = <<>>
  => /\ splitQuery(filters.query) = << SignatureFragment(Chars("ET SCAN")) >>
     /\ Len(calls) > log.calls

\* The streamed visuals of Overview: the top-N tables and the protocol panel.
Streamed == Tables \cup {"protocols"}

\* The loading flag of a streamed visual, given the two stores.
Loading(tb, pr, x) == IF x = "protocols" THEN pr.loading ELSE tb[x].loading

\* C11: every streamed top-N table and the protocol panel has a loading flag of
\* its own: it is true after the step that issues the visual's request, false
\* after the step in which a request of the visual resolves (done marker or
\* rejection), and a step changes the flag of a visual only if it issues,
\* feeds or resolves a request of that very visual.
C11_OwnLoadingFlag ==
  [][ /\ \A r \in reqs' \ reqs :
          r.kind = "getSseAgg" /\ r.n = 0 => Loading(tables', protocols', r.target)
      /\ \A r \in reqs \ reqs' :
          (r.kind = "getSseAgg" /\ \A q \in reqs' \ reqs : q.target # r.target)
            => ~Loading(tables', protocols', r.target)
      /\ \A x \in Streamed :
          Loading(tables', protocols', x) # Loading(tables, protocols, x)
            => \E r \in (reqs \ reqs') \cup (reqs' \ reqs) :
                  r.kind = "getSseAgg" /\ r.target = x ]_vars

\* C11 witness: the stream of the table was rejected and its flag is false while
\* the protocol panel of the same refresh is still loading.
C11_Witness ==
  /\ failures = 1
  /\ ~tables["topAlerts"].loading
  /\ protocols.loading
  /\ \A r \in reqs : r.kind = "getSseAgg" => r.target = "protocols" /\ r.ver = version
  /\ \E r \in reqs : r.kind = "getSseAgg"

\* The requests of the loaders that the latest refresh cycle issued and that are
\* still outstanding.
OutstandingOfLatest ==
  IF page = "Overview"
  THEN {r \in reqs : r.kind \in Loaders /\ r.ver = rid}
  ELSE {r \in reqs : r.kind \in SoLoaders \cup {"loadSignatureTrend"} /\ r.id = cycle}

\* C12: the aggregate busy flag (analyticsLoading of Overview, loading of
\* SoDashboardsPage) is true in every state in which a request of the latest
\* refresh cycle is outstanding, whatever the outcomes of the other requests.
C12_BusyWhileOutstanding ==
  OutstandingOfLatest # {} => analyticsLoading

\* C13: errors are isolated per chart key: on Overview, a top-talker chart
\* whose own request of the latest cycle succeeded is rendered from that
\* response, whether the request of the other top-talker chart is slow or
\* failed.
C13_ErrorIsolation ==
  (page = "Overview" /\ calls # <<>>) =>
    \A key \in {"topTalkerSrc", "topTalkerDst"} :
      calls[Len(calls)][IF key = "topTalkerSrc" THEN "src" ELSE "dst"].state = "ok"
        => chartRegistry[key].id = Len(calls)

\* The loaders a refresh of the page starts.
LoadersOfPage == IF page = "Overview" THEN Loaders ELSE SoLoaders

C15_FailedPlaceholder ==
  [][ \A r \in (reqs \ reqs') \cap OutstandingOfLatest :
        (failures' = failures + 1 /\ r.target \in ChartKeys)
          => shown'[r.target] = "failed" ]_vars

\* C16: a response with zero rows or buckets still updates its chart, and what
\* the chart then shows is the explicit "no data" visual: no canvas holds a
\* chart that was built from an empty response and draws empty axes.
C16_EmptyShowsNoData ==
  \A key \in ChartKeys : shown[key] # "emptyChart"

\* C17: the generation counters of Overview (rid of refreshAnalytics, version
\* of refresh) grow by exactly one per call of their refresh function and by
\* nothing else: a step that only consumes a response or a rejection leaves
\* both unchanged, and every request issued carries the value that is current
\* when the step ends.
C17_GenerationCounter ==
  [][ page = "Overview" =>
        /\ rid' - rid = Len(calls') - Len(calls)
        /\ version' - version = cycle' - cycle
        /\ rid' >= rid /\ version' >= version
        /\ (reqs' \subseteq reqs \/ failures' # failures)
             => rid' = rid /\ version' = version
        /\ \A r \in reqs' \ reqs :
             /\ r.kind \in Loaders => r.ver = rid'
             /\ (r.kind = "getSseAgg" /\ r.n = 0) => r.ver = version' ]_vars

\* C17 witness: after two refreshes and one rejected request, requests that
\* carry generation 1 and requests that carry generation 2 are in flight.
C17_Witness ==
  /\ page = "Overview"
  /\ rid = 2 /\ version = 2
  /\ failures = 1
  /\ \E r \in reqs : r.kind \in Loaders /\ r.ver = 1
  /\ \E r \in reqs : r.kind \in Loaders /\ r.ver = 2

\* The parts joined by single spaces, empty parts left out.
RECURSIVE SingleSpaced(_)
SingleSpaced(parts) ==
  IF parts = <<>> THEN <<>> ELSE JoinNonEmpty(parts[1], SingleSpaced(Tail(parts)))

\* A part with its prefix, or nothing when the value is empty.
Part(prefix, value) == IF value = <<>> THEN <<>> ELSE prefix \o value

\* The string has no leading, no trailing and no doubled space.
WellSeparated(str) ==
  str = <<>> \/ (/\ str[1] # SPACE
                 /\ str[Len(str)] # SPACE
                 /\ \A i \in 1..(Len(str) - 1) : ~(str[i] = SPACE /\ str[i + 1] = SPACE))

\* The parts of the query of SoDashboardsPage in the order of the claim.
SoParts(extra, onlyAlerts) ==
  << Part(<<"host", COLON>>, filters.sensor),
     IF filters.severity = <<>> THEN <<>>
     ELSE <<"alert.severity", COLON, "(">> \o JoinOr(filters.severity) \o <<")">>,
     Part(<<"ip", COLON>>, filters.ip),
     IF filters.signature = <<>> THEN <<>>
     ELSE <<"alert.signature", COLON, QUOTE>> \o filters.signature \o <<QUOTE>>,
     Part(<<"proto", COLON>>, filters.proto),
     Part(<<"port", COLON>>, filters.port),
     searchParams.q,
     SingleSpaced(extra),
     IF onlyAlerts THEN <<"event_type", COLON, "alert">> ELSE <<>> >>

\* The extra terms loadTopSignatures passes for the trend of a row.
Extras == {<<>>} \cup {<< SignatureFragment(Chars(k)) >> : k \in Signatures}

C19_ResetClearsAll ==
  log.op = "reset" =>
    /\ searchParams.q = <<>>
    /\ TIME_RANGE = "24h"
    /\ IF page = "Overview"
       THEN filters.query = <<>> /\ searchParams.sensor = <<>>
       ELSE filters = NoFilters

\* What the protocol pie draws: nothing while protocols.data is empty.
PieRows(pr) == IF pr.pie.idx = 0 THEN <<>> ELSE pr.pie.rows

\* C20: within one stream the batches are applied in the order they arrive and
\* the last wins: in the step that consumes the done marker of the stream of the
\* current refresh, after at least one batch, the rows of the table (for the
\* protocols stream, the rows the pie draws) are those of the last batch of that
\* stream.
C20_LastBatchWins ==
  [][ \A r \in reqs \ reqs' :
        (/\ r.kind = "getSseAgg"
         /\ r.ver = version
         /\ r.n > 0
         /\ failures' = failures
         /\ \A q \in reqs' \ reqs : q.target # r.target)
        => IF r.target = "protocols"
           THEN PieRows(protocols') = r.last
           ELSE tables'[r.target].rows = r.last ]_vars

\* C20 witness: the stream of the table of the current refresh delivered two
\* batches, the second without rows, its done marker has arrived, and the table
\* is empty.
C20_Witness ==
  /\ tables["topAlerts"].gen = [id |-> cycle, n |-> 2]
  /\ tables["topAlerts"].rows = <<>>
  /\ ~tables["topAlerts"].loading
  /\ \A r \in reqs : r.target # "topAlerts"
  /\ failures = 0

\* C21: once the protocol pie of a stream exists, every later batch of that
\* stream is written into that very instance (its rows are the batch, it is
\* redrawn) and no chart instance is created or destroyed by the batch.
C21_PieUpdatedInPlace ==
  [][ \A r \in reqs \ reqs' : \A q \in reqs' \ reqs :
        (/\ r.kind = "getSseAgg" /\ r.target = "protocols"
         /\ q.kind = "getSseAgg" /\ q.target = "protocols"
         /\ q.id = r.id /\ q.n = r.n + 1
         /\ r.ver = version
         /\ protocols.pie.idx # 0
         /\ protocols.pie.gen.id = r.id)
        => /\ instances' = instances
           /\ protocols'.pie.idx = protocols.pie.idx
           /\ protocols'.pie.rows = q.last
           /\ protocols'.pie.gen = [id |-> q.id, n |-> q.n] ]_vars

\* C21 witness: the first batch of the current protocols stream created the
\* pie with one slice, the second batch gave it two, and the pie is still the
\* only instance that stream has created.
C21_Witness ==
  /\ protocols.pie.idx # 0
  /\ protocols.pie.gen = [id |-> cycle, n |-> 2]
  /\ Len(protocols.data) = 1
  /\ Len(protocols.pie.rows) = 2
  /\ protocols.gen = [id |-> cycle, n |-> 1]

\* C22: in every call of Overview.refresh the cancel-all-streaming request is
\* made, and made before the first streaming aggregate of the new cycle is
\* opened.
C22_CancelBeforeStreams ==
  (page = "Overview" /\ cycle > 0) =>
    /\ \E i \in 1..Len(sseCalls) : sseCalls[i] = "cancelAllSse"
    /\ \A i, j \in 1..Len(sseCalls) :
         (sseCalls[i] = "cancelAllSse" /\ sseCalls[j] = "getSseAgg") => i < j

\* C22 witness: the second refresh has cancelled the streams and opened its own
\* while a stream of the first refresh is still open.
C22_Witness ==
  /\ cycle = 2
  /\ sseCalls = <<"cancelAllSse", "getSseAgg", "getSseAgg">>
  /\ \E r \in reqs : r.kind = "getSseAgg" /\ r.id = 1
  /\ \E r \in reqs : r.kind = "getSseAgg" /\ r.id = 2

\* The fragments the click handlers and the quick filter buttons of Overview add.
Fragments == QuickFilters \cup {SignatureFragment(Chars("ET SCAN"))}

\* C23: removeFilter is the inverse of addFilter: in every state of Overview
\* whose token list does not hold the fragment f, addFilter(f) followed by
\* removeFilter(f) leaves a query with the token list of before, in which no
\* token is f.
C23_RemoveInvertsAdd ==
  (page = "Overview" /\ phase = "mounted") =>
    \A f \in Fragments :
      ~Includes(splitQuery(filters.query), f) =>
        \A added \in {addFilter(State, f)} :
        \A removed \in {removeFilter(added, f)} :
          /\ splitQuery(removed.filters.query) = splitQuery(filters.query)
          /\ ~Includes(splitQuery(removed.filters.query), f)

\* C24: after addFilter, removeFilter, apply or reset of Overview the q of the
\* URL is the stored filters.query (absent when it is empty) and the sensor of
\* the URL is what it was before the handler.
C24_UrlSynchronised ==
  (page = "Overview" /\ log.op \in {"addFilter", "removeFilter", "apply", "reset"})
    => /\ searchParams.q = filters.query
       /\ searchParams.sensor = log.before.searchParams.sensor

\* The one quoting rule: field:value, the value between double quotes when it
\* holds whitespace.
QuotingRule(field, value) ==
  <<field, COLON>> \o (IF Includes(value, SPACE) THEN <<QUOTE>> \o value \o <<QUOTE>>
                       ELSE value)

\* C25: the fragment a cross-filter click handler adds for {field, value} is
\* the one the quoting rule gives, whichever visual was clicked.
C25_OneQuotingRule ==
  (log.op = "addFilter" /\ log.field # "") => log.arg = QuotingRule(log.field, log.value)

\* The tokens of a token list that hold a space: the quoted multi-word phrases.
Phrases(tokens) == {tokens[i] : i \in {j \in 1..Len(tokens) : Includes(tokens[j], SPACE)}}

\* C26: the token list of the stored query of Overview holds no empty and no
\* whitespace-only token, and a quoted multi-word phrase that was one token
\* before addFilter or removeFilter re-serialized the list is one token with the
\* same text afterwards (unless it is the fragment that was removed).
C26_TokenInvariant ==
  (page = "Overview" /\ phase = "mounted") =>
    /\ \A i \in 1..Len(splitQuery(filters.query)) :
         Trim(splitQuery(filters.query)[i]) # <<>>
    /\ log.op \in {"addFilter", "removeFilter"} =>
         \A phrase \in Phrases(splitQuery(log.before.filters.query)) :
           phrase = log.arg \/ Includes(splitQuery(filters.query), phrase)

\* C27: a histogramTime response that arrives when the labels of its
\* fetchEventsHistogram call are fixed (labels.length is not 0) and that is not
\* rejected ends in one of two ways.  With as many buckets as labels it is
\* pushed as the dataset of its event type; with another bucket count nothing
\* is pushed, the mismatch goes to console.error and nothing is thrown.  The
\* datasets pushed before stay, and eventsOverTimeLoading is decremented either
\* way.
C27_MismatchSkipped ==
  [][\A r \in reqs \ reqs' :
       (r.kind = "histogramTime" /\ phase' = "mounted" /\ ops' = ops
          /\ labels[r.id] # 0 /\ histogram.idx # 0) =>
         /\ eventsOverTimeLoading' = eventsOverTimeLoading - 1
         /\ failures' = failures
         /\ labels' = labels
         /\ \/ /\ histogram'.datasets = histogram.datasets
               /\ console' = console \cup {[id |-> r.id, label |-> r.target]}
            \/ /\ histogram'.datasets =
                    Append(histogram.datasets,
                           [id |-> r.id, label |-> r.target, n |-> labels[r.id]])
               /\ console' = console]_vars

\* C27: one call of fetchEventsHistogram has had a response skipped for its
\* bucket count and has the dataset of its other event type on the chart; every
\* request of the call is settled and eventsOverTimeLoading is back at 0.
C27_Witness ==
  /\ page = "Overview" /\ phase = "mounted"
  /\ eventsOverTimeLoading = 0
  /\ \A r \in reqs : r.kind \notin {"histogramTime", "getEventTypes"}
  /\ \E c \in console :
       /\ labels[c.id] # 0
       /\ \E i \in 1..Len(histogram.datasets) :
            /\ histogram.datasets[i].id = c.id
            /\ histogram.datasets[i].label # c.label
            /\ histogram.datasets[i].n = labels[c.id]

\* SoDashboardsPage with the requests of loadSeverityStack followed.
InitSnapshot ==
  /\ Constructed
  /\ followed = {"loadSeverityStack"}
  /\ page = "SoDashboardsPage"
  /\ searchParams \in [sensor : {<<>>}, q : Queries]
  /\ filters = NoFilters
  /\ log = NoLog

\* One loader that issues its requests one after the other, and the handlers
\* that change the filter panel, the URL and the time range meanwhile.
NextSnapshot ==
  \/ Mount
  \/ SoInput
  \/ SoQuickFilter
  \/ SoTimeRangeClick
  \/ SoRefreshClick
  \/ SoSeverityStackResponse

SpecSnapshot == InitSnapshot /\ [][NextSnapshot]_vars

\* The tokens of the query of a request of loadSeverityStack but for the
\* severity of its turn.
Snapshot(r) == Without(soSplit(r.q), Fragment("alert.severity", <<r.target>>))

\* C28: the requests one run of loadSeverityStack issues are composed from one
\* snapshot of the filter state: the request of the next severity differs from
\* the request it follows in the severity token only.
C28_OneSnapshot ==
  [][\A r \in reqs \ reqs' : \A next \in reqs' \ reqs :
       (r.kind = "loadSeverityStack" /\ next.kind = "loadSeverityStack"
          /\ next.id = r.id) => Snapshot(next) = Snapshot(r)]_vars

\* The loaders of SoDashboardsPage that draw the charts a click filters by.
Clickable == {"loadSeverityStack", "loadTopTalkers"}

\* A page opened with a URL without q, with the charts that are clicked on.
InitClicks ==
  /\ Constructed
  /\ followed = Clickable
  /\ searchParams = [sensor |-> <<>>, q |-> <<>>]
  /\ filters = IF page = "Overview" THEN [query |-> <<>>] ELSE NoFilters
  /\ log = NoLog

\* The severity chart and the top-talker charts of both pages: the responses
\* that draw them and the clicks on them.
NextClicks ==
  \/ Mount
  \/ (ChartResponse /\ Latest)
  \/ (TalkersResponse /\ Latest)
  \/ (Few /\ SeverityClick)
  \/ (Few /\ TalkerClick)
  \/ SoSeverityStackResponse
  \/ SoTalkersResponse
  \/ (Few /\ SoSeverityClick)
  \/ (Few /\ SoTalkerClick)

SpecClicks == InitClicks /\ [][NextClicks]_vars

\* The query the page stores after the step.
StoredNext == IF page = "Overview" THEN filters'.query ELSE searchParams'.q

\* The rows both top-talker charts are drawn from.
TalkerRows == CHOOSE rows \in TalkerResults : TRUE

\* C29: a click on bar i of a top-talker chart appends field:key with the key
\* of row i of the chart: on a page opened without a query, the stored query is
\* that one token afterwards, whose value is neither the count of the row nor
\* the key of another row.
C29_TalkerClickAddsKey ==
  [][(ops' = ops + 1 /\ log'.op = "talkerClick") =>
       \A i \in 0..(Len(TalkerRows) - 1) :
         log'.value = Decimal(i) =>
           Tokens(StoredNext) = << Fragment(log'.field, Chars(TalkerRows[i + 1].key)) >>]_vars

\* C29 on Overview alone, where the click reads data[first.index].key.
C29_OverviewTalkerClick ==
  [][(page = "Overview" /\ ops' = ops + 1 /\ log'.op = "talkerClick") =>
       \A i \in 0..(Len(TalkerRows) - 1) :
         log'.value = Decimal(i) =>
           Tokens(StoredNext) = << Fragment(log'.field, Chars(TalkerRows[i + 1].key)) >>]_vars

\* C30: a click on dataset 0, 1 or 2 of the severity chart appends
\* alert.severity:1, 2 or 3 in Overview and alert.severity:low, medium or high in
\* SoDashboardsPage; a click that hits no element changes neither the filters
\* nor the URL and issues no request.
C30_SeverityClick ==
  [][(ops' = ops + 1 /\ log'.op = "severityClick") =>
       IF log'.value = <<>>
         THEN /\ filters' = filters
              /\ searchParams' = searchParams
              /\ reqs' = reqs
              /\ cycle' = cycle
              /\ rid' = rid
       ELSE \A i \in 0..2 :
              log'.value = Decimal(i) =>
                Includes(Tokens(StoredNext),
                         Fragment("alert.severity",
                                  IF page = "Overview" THEN Decimal(i + 1)
                                  ELSE << <<"low", "medium", "high">>[i + 1] >>))]_vars

\* C30: the third dataset of Overview's severity chart was clicked and the
\* stored query holds alert.severity:3.
C30_Witness ==
  /\ page = "Overview"
  /\ log.op = "severityClick"
  /\ log.value = Decimal(2)
  /\ Includes(splitQuery(filters.query), Fragment("alert.severity", Decimal(3)))

\* C30: the third dataset of the severity chart of SoDashboardsPage was clicked
\* and the q of the URL holds alert.severity:high.
C30_SoWitness ==
  /\ page = "SoDashboardsPage"
  /\ log.op = "severityClick"
  /\ log.value = Decimal(2)
  /\ Includes(soSplit(searchParams.q), Fragment("alert.severity", <<"high">>))

\* C30: a click on the severity chart has hit no element.
C30_MissWitness ==
  /\ log.op = "severityClick"
  /\ log.value = <<>>

\* C31: after the onCleanup of Overview no response of a request that was in
\* flight destroys an instance a second time, and when no request is left in
\* flight no chart instance is live.
C31_NothingAfterTeardown ==
  (page = "Overview" /\ phase = "unmounted") =>
    \A k \in InstanceKeys :
      \A i \in 1..Len(instances[k]) :
        /\ instances[k][i] <= 1
        /\ reqs = {} => instances[k][i] = 1

\* The events-by-type histogram of Overview while the query changes: the button
\* that adds a fragment, and every response of fetchEventsHistogram.
NextEventual ==
  \/ Mount
  \/ (Few /\ QuickFilter)
  \/ EventTypesResponse
  \/ HistogramResponse

\* Every request is answered in the end.
SpecEventual ==
  /\ InitOverview
  /\ [][NextEventual]_vars
  /\ WF_vars(EventTypesResponse)
  /\ WF_vars(HistogramResponse)

\* No request of fetchEventsHistogram is outstanding.
HistogramSettled ==
  \A r \in reqs : r.kind \notin {"getEventTypes", "histogramTime"}

C33_OneCycleInFlight ==
  /\ [](page = "SoDashboardsPage" =>
          /\ \A r \in reqs : r.id = cycle
          /\ analyticsLoading = (cycle > 0 /\ ~calls[cycle].settled)
          /\ \A id \in 1..Len(calls) : id < cycle => calls[id].settled)
  /\ [][(page = "SoDashboardsPage" /\ analyticsLoading
           /\ ops' = ops + 1 /\ log'.op = "refresh") =>
          UNCHANGED <<reqs, cycle, calls, analyticsLoading, filters, searchParams,
                      TIME_RANGE, chartRegistry, instances, shown>>]_vars

\* C33: the refresh button of SoDashboardsPage was clicked while a cycle was in
\* flight, and the requests of that cycle are still outstanding.
C33_Witness ==
  /\ page = "SoDashboardsPage"
  /\ phase = "mounted"
  /\ log.op = "refresh"
  /\ log.cycle = cycle
  /\ analyticsLoading
  /\ \E r \in reqs : r.kind \in SoLoaders

\* C34: the events-by-type histogram of Overview holds at most one dataset per
\* event type, and every dataset is of the fetchEventsHistogram call that set
\* the labels of the chart.
C34_OneDatasetPerType ==
  (page = "Overview" /\ phase = "mounted") =>
    /\ \A i, j \in 1..Len(histogram.datasets) :
         histogram.datasets[i].label = histogram.datasets[j].label => i = j
    /\ \A i \in 1..Len(histogram.datasets) :
         histogram.datasets[i].id = histogram.labelsOf

\* C35: the loading flag of a streamed table is true as long as the stream the
\* latest refresh opened for the table is outstanding.
C35_FlagWhileLatestOpen ==
  (page = "Overview" /\ phase = "mounted") =>
    \A r \in reqs :
      (r.kind = "getSseAgg" /\ r.target \in Tables /\ r.ver = version)
        => tables[r.target].loading

\* The latest call of refreshAnalytics or refreshAllCharts settles in the step.
LatestSettles ==
  /\ Len(calls) > 0
  /\ ~calls[Len(calls)].settled
  /\ calls'[Len(calls)].settled

\* C36: the aggregate busy flag is false after the step in which the latest
\* refresh call settles, whatever the order and the outcomes of the requests;
\* no other step clears it, so a superseded call never does; and once false it
\* becomes true again only by a handler of the user.
C36_BusyFlagCleared ==
  [][ /\ (LatestSettles /\ phase' = "mounted") => ~analyticsLoading'
      /\ (analyticsLoading /\ ~analyticsLoading') => LatestSettles
      /\ (~analyticsLoading /\ analyticsLoading') => (ops' = ops + 1 \/ phase = "new")
    ]_vars

\* C36 on Overview alone.
C36_OverviewBusyFlag ==
  [][ page = "Overview" =>
        /\ (LatestSettles /\ phase' = "mounted") => ~analyticsLoading'
        /\ (analyticsLoading /\ ~analyticsLoading') => LatestSettles
        /\ (~analyticsLoading /\ analyticsLoading') => (ops' = ops + 1 \/ phase = "new")
    ]_vars

\* C37: the text typed into the query textarea of Overview is what filters.query
\* holds until the next handler of the user, whatever q the URL carries, and
\* the apply button that follows writes that text to the URL.
C37_EditKept ==
  page = "Overview" =>
    /\ log.op = "input" => filters.query = log.arg
    /\ (log.op = "apply" /\ log.prev.op = "input") => searchParams.q = log.prev.arg

\* How many times the string sub occurs in the string str.
Occurrences(str, sub) ==
  Cardinality({i \in 1..(Len(str) - Len(sub) + 1) : SubSeq(str, i, i + Len(sub) - 1) = sub})

\* C38, first part: a fragment a click had added to the q of the URL is in q
\* after applyFilters.
C38_ClickTokensKept ==
  (page = "SoDashboardsPage" /\ log.op = "apply") =>
    \A f \in SoQuickFilters :
      Occurrences(log.before.searchParams.q, f) > 0 => Occurrences(searchParams.q, f) > 0

\* C38, second part: after applyFilters every term of the filter panel occurs
\* once in the query buildQueryString composes.
C38_TermsOnce ==
  (page = "SoDashboardsPage" /\ log.op = "apply") =>
    \A i \in 1..Len(FilterTokens(State)) :
      Occurrences(soBuildQueryString(State, <<>>, TRUE), FilterTokens(State)[i]) = 1

\* C38: applyFilters folds the filter panel into the q of the URL: the fragments
\* clicks had added to q stay in q, and every term of the panel occurs exactly
\* once in the query buildQueryString composes afterwards.
C38_ApplyFolds == C38_ClickTokensKept /\ C38_TermsOnce

====
